---- MODULE Spec2Model ----
(***************************************************************************)
(* A model of commandclasses: declaration of command classes (the          *)
(* metaclass Commandclass and its argument / subcommand resolution), their *)
(* instantiation, and the parse -> hook -> dispatch / validate -> action   *)
(* chain of one invocation.                                                *)
(*                                                                         *)
(* Conventions.  Python values are strings: PyNone, PyTrue, PyFalse and    *)
(* ordinary str values.  A dict is a sequence of <<key, value>> pairs in   *)
(* insertion order.  Class names are written in lower case, so that        *)
(* clsname.lower() is the name itself.  An option and its value form one   *)
(* token (--x=a); a bare word is a token of its own.                       *)
(***************************************************************************)
EXTENDS Integers, Sequences, FiniteSets, TLC

VARIABLES
    classes,      \* class objects by name: plain classes and command classes
    REGISTRY,     \* dict: command name -> list of command classes registered
    BREADCRUMBS,  \* dict: command name -> class most recently instantiated
    pending,      \* declarations (class statements) not executed yet
    declared,     \* history: the declarations executed, in order
    stack,        \* the instances on the dispatch path, root first
    pc,           \* position of the invocation in Commandclass.call
    events,       \* history: what happened in this invocation, in order
    result        \* what the root invocation returned or raised

vars == <<classes, REGISTRY, BREADCRUMBS, pending, declared, stack, pc, events, result>>

(***************************************************************************)
(* Python values and dicts                                                 *)
(***************************************************************************)
PyNone == "None"
PyTrue == "True"
PyFalse == "False"

\* bool(v) for the values of the model
Truthy(v) == v \notin {PyNone, PyFalse, ""}

DictKeys(d) == {d[i][1] : i \in 1..Len(d)}

DictHas(d, k) == \E i \in 1..Len(d) : d[i][1] = k

DictGet(d, k) == d[CHOOSE i \in 1..Len(d) : d[i][1] = k][2]

DictGetOr(d, k, dflt) == IF DictHas(d, k) THEN DictGet(d, k) ELSE dflt

\* d[k] = v : an existing key keeps its place, a new key is appended
DictSet(d, k, v) ==
    IF DictHas(d, k)
    THEN [i \in 1..Len(d) |-> IF d[i][1] = k THEN <<k, v>> ELSE d[i]]
    ELSE Append(d, <<k, v>>)

\* del d[k]
DictDel(d, k) == SelectSeq(d, LAMBDA e : e[1] # k)

\* {**a, **b} on keyword maps (functions over their key sets)
MergeKw(a, b) ==
    [k \in (DOMAIN a) \cup (DOMAIN b) |-> IF k \in DOMAIN b THEN b[k] ELSE a[k]]

EmptyKw == [k \in {} |-> PyNone]

\* Op applied to the value of v (v is evaluated once, as an assignment does)
Let(v, Op(_)) == CHOOSE r \in {Op(x) : x \in {v}} : TRUE

(***************************************************************************)
(* Argument descriptors                                                    *)
(***************************************************************************)
\* a predicate over the instance: none, or "instance.<reads> == <eq>"
NoPred == [reads |-> "", eq |-> PyNone]

WhenEq(n, v) == [reads |-> n, eq |-> v]

\* argument(...): decl identifies the Argument object; name and type are
\* class attributes set later, during argument processing
Argument(decl, default, required, required_when, illegal_when) ==
    [decl |-> decl, name |-> PyNone, type |-> PyNone, default |-> default,
     required |-> required, required_when |-> required_when,
     illegal_when |-> illegal_when, allow_inverse |-> TRUE, show_help |-> TRUE]

NoArg == Argument("", PyNone, FALSE, NoPred, NoPred)

\* Argument.invertible (no modelled name starts with "no")
Invertible(a) == a.type = "bool" /\ a.allow_inverse

(***************************************************************************)
(* Class namespaces: the value of one attribute of a class body            *)
(***************************************************************************)
ArgAttr(a, ann) == [kind |-> "arg", arg |-> a, cmd |-> "", ann |-> ann]

CmdAttr(c) == [kind |-> "cmd", arg |-> NoArg, cmd |-> c, ann |-> PyNone]

NoneAttr == [kind |-> "none", arg |-> NoArg, cmd |-> "", ann |-> PyNone]

\* the function a namespace holds under __call__ (fn) and how many times
\* Commandclass has wrapped it (wraps); absent is PASS
NoCall == [fn |-> "PASS", wraps |-> 0]

UserCall == [fn |-> "user", wraps |-> 0]

\* the function a namespace holds under __after_parse__: absent (PASS), or a
\* user hook that normalises one parsed value: if self.n is not None: self.n = v
NoHook == [kind |-> "PASS", name |-> "", val |-> PyNone]

Normalise(n, v) == [kind |-> "user", name |-> n, val |-> v]

\* a namespace: the ordinary attributes (dict) and the two special methods
Namespace(dict, call, after_parse) ==
    [dict |-> dict, call |-> call, after_parse |-> after_parse]

\* a plain class object
PlainClass(name, bases, ns) ==
    [name |-> name, iscmd |-> FALSE, bases |-> bases,
     dict |-> ns.dict, call |-> ns.call, after_parse |-> ns.after_parse,
     arguments |-> <<>>, inherited_arguments |-> <<>>,
     commands |-> <<>>, inherited_commands |-> <<>>,
     meta |-> [name |-> PyNone, hidden |-> FALSE]]

IsCommandclass(cs, c) == cs[c].iscmd

Arguments(cls) == cls.arguments

Commands(cls) == cls.commands

HasCommand(cls, n) == DictHas(Commands(cls), n)

(***************************************************************************)
(* for_each_base: the classes visited, in order (depth first, a class      *)
(* after its bases; the bases of a command class are not entered)          *)
(***************************************************************************)
RECURSIVE ForEachBase(_, _)
RECURSIVE ForEachBases(_, _)
ForEachBase(cs, c) ==
    (IF ~IsCommandclass(cs, c) THEN ForEachBases(cs, cs[c].bases) ELSE <<>>) \o <<c>>

ForEachBases(cs, bases) ==
    IF bases = <<>> THEN <<>>
    ELSE ForEachBase(cs, Head(bases)) \o ForEachBases(cs, Tail(bases))

(***************************************************************************)
(* Commandclass._create_argument_list                                      *)
(***************************************************************************)
\* variant: a later command-class base overwrites an earlier entry
RECURSIVE ScanBaseArgumentsOverwrite(_, _, _, _)
ScanBaseArgumentsOverwrite(st, name, bargs, i) ==
    IF i > Len(bargs) THEN st
    ELSE Let([st EXCEPT
                !.args = DictSet(@, bargs[i][1], bargs[i][2]),
                !.inherited =
                    DictSet(@, name, DictSet(DictGetOr(@, name, <<>>), bargs[i][1], bargs[i][2]))],
             LAMBDA s : ScanBaseArgumentsOverwrite(s, name, bargs, i + 1))

\* the arguments of a command-class base: taken when the name is still free
RECURSIVE ScanBaseArguments(_, _, _, _)
ScanBaseArguments(st, name, bargs, i) ==
    IF i > Len(bargs) THEN st
    ELSE LET a_name == bargs[i][1]
             a == bargs[i][2]
             st2 == IF ~DictHas(st.args, a_name)
                    THEN [st EXCEPT
                            !.args = DictSet(@, a_name, a),
                            !.inherited =
                                DictSet(@, name, DictSet(DictGetOr(@, name, <<>>), a_name, a))]
                    ELSE st
         IN Let(st2, LAMBDA s : ScanBaseArguments(s, name, bargs, i + 1))

\* the Argument attributes of a namespace: taken when the name is still free
RECURSIVE ScanClassAttrs(_, _, _, _, _)
ScanClassAttrs(st, name, cls_attrs, isBase, i) ==
    IF i > Len(cls_attrs) THEN st
    ELSE LET a_name == cls_attrs[i][1]
             it == cls_attrs[i][2]
             a == [it.arg EXCEPT !.name = a_name, !.type = it.ann]
             st2 == IF it.kind = "arg" /\ ~DictHas(st.args, a_name)
                    THEN [st EXCEPT
                            !.attrs = DictSet(@, a_name, NoneAttr),
                            !.inherited =
                                IF isBase
                                THEN DictSet(@, name, DictSet(DictGetOr(@, name, <<>>), a_name, a))
                                ELSE @,
                            !.args = DictSet(@, a_name, a)]
                    ELSE st
         IN Let(st2, LAMBDA s : ScanClassAttrs(s, name, cls_attrs, isBase, i + 1))

\* process_arguments(name, cls_attrs, base_class); base_class "" is None
ProcessArguments(cs, st, name, cls_attrs, base_class) ==
    IF base_class # "" /\ IsCommandclass(cs, base_class)
    THEN ScanBaseArguments(st, name, Arguments(cs[base_class]), 1)
    ELSE ScanClassAttrs(st, name, cls_attrs, base_class # "", 1)

RECURSIVE ProcessArgumentBases(_, _, _, _)
ProcessArgumentBases(cs, st, order, i) ==
    IF i > Len(order) THEN st
    ELSE Let(ProcessArguments(cs, st, cs[order[i]].name, cs[order[i]].dict, order[i]),
             LAMBDA s : ProcessArgumentBases(cs, s, order, i + 1))

\* the implicit --dryrun argument
DryrunArgument ==
    [Argument("dryrun", PyNone, FALSE, NoPred, NoPred) EXCEPT !.name = "dryrun", !.type = "bool"]

CreateArgumentList(cs, clsname, bases, attrs) ==
    LET st0 == [args |-> <<<<"dryrun", DryrunArgument>>>>,
                inherited |-> <<>>,
                attrs |-> DictSet(attrs, "dryrun", NoneAttr)]
    IN Let(ForEachBases(cs, bases), LAMBDA order :
       Let(ProcessArgumentBases(cs, st0, order, 1), LAMBDA st1 :
           ProcessArguments(cs, st1, clsname, st1.attrs, "")))

(***************************************************************************)
(* Names                                                                   *)
(***************************************************************************)
\* normalize_name: '_' becomes '-' (a table over the names of the model)
NormalizeName(name) ==
    CASE name = "show_help" -> "show-help"
      [] name = "foo_bar" -> "foo-bar"
      [] OTHER -> name

\* denormalize_name: leading '-' stripped, '-' becomes '_'
DenormalizeName(name) ==
    CASE name = "--dryrun" -> "dryrun"
      [] name = "show-help" -> "show_help"
      [] name = "foo-bar" -> "foo_bar"
      [] name = "--a" -> "a"
      [] OTHER -> name

(***************************************************************************)
(* Commandclass._create_command_list                                       *)
(***************************************************************************)
\* the subcommands of a command-class base: every one is written
RECURSIVE ScanBaseCommands(_, _, _, _)
ScanBaseCommands(st, name, bcmds, i) ==
    IF i > Len(bcmds) THEN st
    ELSE LET c_name == bcmds[i][1]
             c == bcmds[i][2]
             st2 == [st EXCEPT
                        !.cmds = DictSet(@, c_name, c),
                        !.inherited =
                            DictSet(@, name, Append(DictGetOr(@, name, <<>>), <<c_name, c>>))]
         IN Let(st2, LAMBDA s : ScanBaseCommands(s, name, bcmds, i + 1))

\* the command-class attributes of a namespace: written, and removed from
\* the namespace of the class under construction
RECURSIVE ScanClassCommands(_, _, _, _, _, _)
ScanClassCommands(cs, st, name, cls_attrs, isBase, i) ==
    IF i > Len(cls_attrs) THEN st
    ELSE LET a_name == cls_attrs[i][1]
             it == cls_attrs[i][2]
             st2 == IF it.kind = "cmd" /\ IsCommandclass(cs, it.cmd)
                    THEN [st EXCEPT
                            !.cmds = DictSet(@, NormalizeName(a_name), it.cmd),
                            !.attrs = DictDel(@, a_name),
                            !.inherited =
                                IF isBase
                                THEN DictSet(@, name,
                                         Append(DictGetOr(@, name, <<>>), <<a_name, it.cmd>>))
                                ELSE @]
                    ELSE st
         IN Let(st2, LAMBDA s : ScanClassCommands(cs, s, name, cls_attrs, isBase, i + 1))

\* process_subcommands(name, cls_attrs, base_class); base_class "" is None
ProcessSubcommands(cs, st, name, cls_attrs, base_class) ==
    IF base_class # "" /\ IsCommandclass(cs, base_class)
    THEN ScanBaseCommands(st, name, Commands(cs[base_class]), 1)
    ELSE ScanClassCommands(cs, st, name, cls_attrs, base_class # "", 1)

RECURSIVE ProcessCommandBases(_, _, _, _)
ProcessCommandBases(cs, st, order, i) ==
    IF i > Len(order) THEN st
    ELSE Let(ProcessSubcommands(cs, st, cs[order[i]].name, cs[order[i]].dict, order[i]),
             LAMBDA s : ProcessCommandBases(cs, s, order, i + 1))

CreateCommandList(cs, clsname, bases, attrs) ==
    LET st0 == [cmds |-> <<>>, inherited |-> <<>>, attrs |-> attrs]
    IN Let(ForEachBases(cs, bases), LAMBDA order :
       Let(ProcessCommandBases(cs, st0, order, 1), LAMBDA st1 :
           ProcessSubcommands(cs, st1, clsname, st1.attrs, "")))

(***************************************************************************)
(* Commandclass.__new__, the class statement and the decorator             *)
(***************************************************************************)
NoMeta == [name |-> PyNone, hidden |-> FALSE]

\* _create_call_method: the namespace's __call__ (PASS when absent) wrapped
\* once more by call
CreateCallMethod(call) == [fn |-> call.fn, wraps |-> call.wraps + 1]

\* _create_parser_hooks: the namespace's __after_parse__ (PASS when absent)
CreateParserHooks(after_parse) == after_parse

\* the class Commandclass.__new__ builds from a namespace
CommandclassNew(cs, clsname, bases, ns, meta) ==
    Let(CreateArgumentList(cs, clsname, bases, ns.dict), LAMBDA ra :
    Let(CreateCommandList(cs, clsname, bases, ra.attrs), LAMBDA rc :
        [name |-> clsname, iscmd |-> TRUE, bases |-> bases, dict |-> rc.attrs,
         call |-> CreateCallMethod(ns.call),
         after_parse |-> CreateParserHooks(ns.after_parse),
         arguments |-> ra.args, inherited_arguments |-> ra.inherited,
         commands |-> rc.cmds, inherited_commands |-> rc.inherited,
         meta |-> [name |-> DenormalizeName(IF meta.name = PyNone THEN clsname ELSE meta.name),
                   hidden |-> meta.hidden]]))

\* env is [classes, REGISTRY]: the class is bound to its name and appended
\* to the registry under its command name
Register(env, cls) ==
    [classes |-> (cls.name :> cls) @@ env.classes,
     REGISTRY |-> DictSet(env.REGISTRY, cls.meta.name,
                      Append(DictGetOr(env.REGISTRY, cls.meta.name, <<>>), cls.name))]

\* class <name>(<bases>): <body>.  With a command class among the bases the
\* metaclass is Commandclass and __new__ runs; otherwise the class is plain.
ClassStatement(env, d) ==
    IF \E i \in 1..Len(d.bases) : IsCommandclass(env.classes, d.bases[i])
    THEN Let(CommandclassNew(env.classes, d.name, d.bases, d.ns, NoMeta),
             LAMBDA cls : Register(env, cls))
    ELSE [env EXCEPT !.classes = (d.name :> PlainClass(d.name, d.bases, d.ns)) @@ @]

\* commandclass(cls, **kwargs): Commandclass(cls.__name__, cls.__bases__, dict(cls.__dict__))
Decorator(env, c, meta) ==
    LET cls == env.classes[c]
    IN Let(CommandclassNew(env.classes, cls.name, cls.bases,
               Namespace(cls.dict, cls.call, cls.after_parse), meta),
           LAMBDA new : Register(env, new))

\* one declaration of the program: the class statement, then its decorator
Declare(env, d) ==
    IF d.decorated
    THEN Let(ClassStatement(env, d), LAMBDA e : Decorator(e, d.name, d.meta))
    ELSE ClassStatement(env, d)

(***************************************************************************)
(* add_to_commandclass                                                     *)
(***************************************************************************)
\* one Argument change on a class or instance record
AddArgument(x, a_name, a) ==
    [x EXCEPT
        !.arguments = DictSet(@, DenormalizeName(a_name),
                          [a EXCEPT !.name = IF Truthy(a.name) THEN a.name ELSE a_name])]

\* variant: an entry already in the subcommand map is kept
AddCommandKeepFirst(x, a_name, c) ==
    IF DictHas(x.commands, NormalizeName(a_name)) THEN x
    ELSE [x EXCEPT !.commands = Append(@, <<NormalizeName(a_name), c>>)]

\* one subcommand change on a class or instance record
AddCommand(x, a_name, c) ==
    [x EXCEPT !.commands = DictSet(@, NormalizeName(a_name), c)]

(***************************************************************************)
(* Commandclass.__call__: instantiation, with the help and completions     *)
(* subcommands injected into the instance                                  *)
(***************************************************************************)
\* getattr(instance, n) before any parse: the class attribute, through the
\* bases; an Argument left in a namespace is an object, not None
RECURSIVE ClassAttr(_, _, _)
RECURSIVE ClassAttrBases(_, _, _)
ClassAttr(cs, c, n) ==
    IF DictHas(cs[c].dict, n)
    THEN (IF DictGet(cs[c].dict, n).kind = "none" THEN PyNone ELSE "<object>")
    ELSE ClassAttrBases(cs, cs[c].bases, n)

ClassAttrBases(cs, bases, n) ==
    IF bases = <<>> THEN PyNone
    ELSE IF ClassAttr(cs, Head(bases), n) # PyNone THEN ClassAttr(cs, Head(bases), n)
    ELSE ClassAttrBases(cs, Tail(bases), n)

\* the instance as super().__call__() returns it
NewInstance(cs, c) ==
    [cls |-> c,
     arguments |-> Arguments(cs[c]),
     commands |-> Commands(cs[c]),
     attrs |-> [n \in DictKeys(Arguments(cs[c])) |-> ClassAttr(cs, c, n)],
     level |-> 0, tokens |-> <<>>, args |-> <<>>, kwargs |-> EmptyKw,
     f |-> "", parsed |-> EmptyKw, rest |-> <<>>,
     hooks |-> 0, checks |-> 0, errors |-> <<>>, seen |-> EmptyKw,
     got |-> [args |-> <<>>, kwargs |-> EmptyKw],
     err |-> "", matches |-> <<>>, shown |-> <<>>]

\* variant: the documentation command is added to the class's own map too
InjectCommandDocumentationIntoClass(st) ==
    Let(CommandclassNew(st.env.classes, st.inst.cls \o "help", <<>>,
            Namespace(<<>>, [fn |-> "doc", wraps |-> 0], NoHook), NoMeta),
        LAMBDA hc : [st EXCEPT !.env = [Register(@, hc) EXCEPT
                                           !.classes[st.inst.cls] = AddCommand(@, "help", hc.name)],
                               !.inst = AddCommand(@, "help", hc.name)])

\* inject_command_documentation: a new command class <typename>help whose
\* action renders the documentation, added to the instance as help
InjectCommandDocumentation(st) ==
    Let(CommandclassNew(st.env.classes, st.inst.cls \o "help", <<>>,
            Namespace(<<>>, [fn |-> "doc", wraps |-> 0], NoHook), NoMeta),
        LAMBDA hc : [st EXCEPT !.env = Register(@, hc),
                               !.inst = AddCommand(@, "help", hc.name)])

\* inject_completions_command: make_commandclass(..., name='completions',
\* call=call, hidden=True), added to the instance as completions
InjectCompletionsCommand(st) ==
    Let(CommandclassNew(st.env.classes, "complete" \o st.inst.cls \o "command", <<>>,
            Namespace(<<>>, [fn |-> "completions", wraps |-> 0], NoHook),
            [name |-> "completions", hidden |-> TRUE]),
        LAMBDA cc : [st EXCEPT !.env = Register(@, cc),
                               !.inst = AddCommand(@, "completions", cc.name)])

\* variant: the documentation command is injected whatever the class has
InstantiateAlwaysInject(env, crumbs, c) ==
    Let([env |-> env,
         crumbs |-> DictSet(crumbs, env.classes[c].meta.name, c),
         inst |-> NewInstance(env.classes, c)],
        LAMBDA s0 : InjectCompletionsCommand(InjectCommandDocumentation(s0)))

\* Commandclass.__call__(cls): st is [env, crumbs, inst]
Instantiate(env, crumbs, c) ==
    LET st0 == [env |-> env,
                crumbs |-> DictSet(crumbs, env.classes[c].meta.name, c),
                inst |-> NewInstance(env.classes, c)]
    IN Let(st0, LAMBDA s0 :
       Let(IF HasCommand(env.classes[c], "help") THEN s0 ELSE InjectCommandDocumentation(s0),
           LAMBDA s1 : InjectCompletionsCommand(s1)))

(***************************************************************************)
(* Strings as character sequences, and get_close_matches (n = 3,           *)
(* cutoff = 0.6) as _show_closest_matches calls it                         *)
(***************************************************************************)
\* the characters of the words that occur as command names or tokens
Chars(w) ==
    CASE w = "sub" -> <<"s", "u", "b">>
      [] w = "sbu" -> <<"s", "b", "u">>
      [] w = "help" -> <<"h", "e", "l", "p">>
      [] w = "hel" -> <<"h", "e", "l">>
      [] w = "completions" -> <<"c", "o", "m", "p", "l", "e", "t", "i", "o", "n", "s">>
      [] w = "zzz" -> <<"z", "z", "z">>
      [] w = "a" -> <<"a">>
      [] w = "b" -> <<"b">>
      [] w = "h" -> <<"h">>
      [] w = "x" -> <<"x">>
      [] w = "y" -> <<"y">>
      [] w = "dryrun" -> <<"d", "r", "y", "r", "u", "n">>

Letters ==
    <<"a", "b", "c", "d", "e", "f", "g", "h", "i", "j", "k", "l", "m",
      "n", "o", "p", "q", "r", "s", "t", "u", "v", "w", "x", "y", "z">>

Ord(ch) == CHOOSE i \in 1..Len(Letters) : Letters[i] = ch

\* u < v on strings
RECURSIVE SeqLess(_, _)
SeqLess(u, v) ==
    IF v = <<>> THEN FALSE
    ELSE IF u = <<>> THEN TRUE
    ELSE IF Head(u) # Head(v) THEN Ord(Head(u)) < Ord(Head(v))
    ELSE SeqLess(Tail(u), Tail(v))

StrLess(u, v) == SeqLess(Chars(u), Chars(v))

\* SequenceMatcher.find_longest_match over a[alo..ahi-1] and b[blo..bhi-1]:
\* <<i, j, k>> with k largest, then i least, then j least
FindLongestMatch(a, b, alo, ahi, blo, bhi) ==
    LET M == {m \in (alo..(ahi - 1)) \X (blo..(bhi - 1)) \X (1..(ahi - alo)) :
                 /\ m[1] + m[3] <= ahi
                 /\ m[2] + m[3] <= bhi
                 /\ \A d \in 0..(m[3] - 1) : a[m[1] + d] = b[m[2] + d]}
    IN IF M = {} THEN <<alo, blo, 0>>
       ELSE CHOOSE m \in M : \A o \in M :
               \/ o[3] < m[3]
               \/ o[3] = m[3] /\ m[1] < o[1]
               \/ o[3] = m[3] /\ m[1] = o[1] /\ m[2] <= o[2]

\* the total size of SequenceMatcher.get_matching_blocks
RECURSIVE MatchedSize(_, _, _, _, _, _)
MatchedSize(a, b, alo, ahi, blo, bhi) ==
    Let(FindLongestMatch(a, b, alo, ahi, blo, bhi), LAMBDA m :
        IF m[3] = 0 THEN 0
        ELSE m[3] + MatchedSize(a, b, alo, m[1], blo, m[2])
                  + MatchedSize(a, b, m[1] + m[3], ahi, m[2] + m[3], bhi))

\* SequenceMatcher(a = x, b = word).ratio() as the fraction <<2 * M, T>>
Ratio(x, word) ==
    <<2 * MatchedSize(Chars(x), Chars(word), 1, Len(Chars(x)) + 1, 1, Len(Chars(word)) + 1),
      Len(Chars(x)) + Len(Chars(word))>>

\* ratio() >= 0.6
IsClose(x, word) == 10 * Ratio(x, word)[1] >= 6 * Ratio(x, word)[2]

\* variant: nothing is ever close
NoCloseMatches(word, possibilities) == <<>>

\* get_close_matches(word, possibilities): the best three of the close
\* ones, by (ratio, name) descending
GetCloseMatches(word, possibilities) ==
    Let(SelectSeq(possibilities, LAMBDA x : IsClose(x, word)), LAMBDA close :
    Let(SortSeq(close, LAMBDA x, y :
            \/ Ratio(x, word)[1] * Ratio(y, word)[2] > Ratio(y, word)[1] * Ratio(x, word)[2]
            \/ /\ Ratio(x, word)[1] * Ratio(y, word)[2] = Ratio(y, word)[1] * Ratio(x, word)[2]
               /\ StrLess(y, x)),
        LAMBDA best : SubSeq(best, 1, IF Len(best) < 3 THEN Len(best) ELSE 3)))

(***************************************************************************)
(* The parser: Argument.add_to, _subcommand_action and parse_known_args    *)
(***************************************************************************)
Flag(n) == [k |-> "flag", name |-> n, val |-> PyNone]       \* --n

NoFlag(n) == [k |-> "noflag", name |-> n, val |-> PyNone]   \* --no-n

Opt(n, v) == [k |-> "opt", name |-> n, val |-> v]           \* --n=v

Word(w) == [k |-> "word", name |-> "", val |-> w]           \* w

\* the argument whose long option is --n, as a set (empty when none)
OptionFor(args, n) ==
    {args[i][2] : i \in {j \in 1..Len(args) : NormalizeName(args[j][2].name) = n}}

\* the type property: the conversion applied to an option's value
Convert(a, v) ==
    CASE a.type = "str" -> v
      [] OTHER -> v

\* the namespace before any token: the defaults that are not None
Defaults(args) ==
    LET S == {i \in 1..Len(args) : args[i][2].default # PyNone}
    IN [n \in {args[i][2].name : i \in S} |->
           args[CHOOSE i \in S : args[i][2].name = n][2].default]

\* setattr(namespace, n, v)
SetNs(ns, n, v) == MergeKw(ns, n :> v)

Fail(st, why) == [st EXCEPT !.ok = FALSE, !.err = why]

\* _subcommand_action: what the namespace holds under subcommand for a
\* selector value ("" when no word was given: the default, main)
SubcommandAction(cmds, main, value) ==
    IF value = "" THEN main ELSE DictGet(cmds, value)

\* parse_known_args, token by token.  st: ns the namespace, sel the selector
\* word, on / off the invertible flags seen set and cleared, rest the
\* unrecognised tokens.
RECURSIVE Scan(_, _, _, _)
Scan(args, cmds, toks, st) ==
    IF toks = <<>> \/ ~st.ok THEN st
    ELSE LET t == Head(toks)
             opt == OptionFor(args, t.name)
             a == CHOOSE x \in opt : TRUE
             skip == Scan(args, cmds, Tail(toks), [st EXCEPT !.rest = Append(@, t)])
         IN CASE t.k = "word" ->
                   IF st.sel # "" THEN skip
                   ELSE IF DictHas(cmds, t.val)
                        THEN Scan(args, cmds, Tail(toks), [st EXCEPT !.sel = t.val])
                        ELSE [Fail(st, "invalid choice") EXCEPT !.bad = t.val]
              [] t.k = "flag" ->
                   IF opt = {} THEN skip
                   ELSE IF a.type = "bool"
                        THEN IF a.name \in st.off
                             THEN Fail(st, "not allowed with argument")
                             ELSE Scan(args, cmds, Tail(toks),
                                      [st EXCEPT !.ns = SetNs(@, a.name, PyTrue),
                                                 !.on = @ \cup {a.name}])
                        ELSE IF Len(toks) >= 2 /\ toks[2].k = "word"
                             THEN Scan(args, cmds, Tail(Tail(toks)),
                                      [st EXCEPT !.ns = SetNs(@, a.name, Convert(a, toks[2].val))])
                             ELSE Fail(st, "expected one argument")
              [] t.k = "noflag" ->
                   IF opt = {} \/ ~Invertible(a) THEN skip
                   ELSE IF a.name \in st.on
                        THEN Fail(st, "not allowed with argument")
                        ELSE Scan(args, cmds, Tail(toks),
                                 [st EXCEPT !.ns = SetNs(@, a.name, PyFalse),
                                            !.off = @ \cup {a.name}])
              [] t.k = "opt" ->
                   IF opt = {} THEN skip
                   ELSE IF a.type = "bool" THEN Fail(st, "ignored explicit argument")
                        ELSE Scan(args, cmds, Tail(toks),
                                 [st EXCEPT !.ns = SetNs(@, a.name, Convert(a, t.val))])

\* list(cmds.keys()): the choices of the subcommand positional
Choices(cmds) == [i \in 1..Len(cmds) |-> cmds[i][1]]

\* parser(*args) of create_parser: [ok, f, parsed, args]; when a selector
\* word is no choice, matches are the close matches _check_value showed
Parser(inst, main, toks) ==
    LET r == Scan(inst.arguments, inst.commands, toks,
                 [ok |-> TRUE, err |-> "", ns |-> Defaults(inst.arguments), sel |-> "",
                  on |-> {}, off |-> {}, rest |-> <<>>, bad |-> ""])
    IN [ok |-> r.ok, err |-> r.err,
        matches |-> IF r.err = "invalid choice"
                    THEN GetCloseMatches(r.bad, Choices(inst.commands)) ELSE <<>>,
        f |-> IF r.ok THEN SubcommandAction(inst.commands, main, r.sel) ELSE "",
        parsed |-> r.ns, args |-> r.rest]

\* set_parsed_attrs: only the parsed names are assigned
SetParsedAttrs(attrs, parsed) == MergeKw(attrs, parsed)

\* the user's __after_parse__ hook, run on the instance
AfterParseHook(h, attrs) ==
    IF h.kind = "user" /\ h.name \in DOMAIN attrs /\ attrs[h.name] # PyNone
    THEN [attrs EXCEPT ![h.name] = h.val]
    ELSE attrs

(***************************************************************************)
(* The requirement checker (the default __before_call__)                   *)
(***************************************************************************)
GetAttr(attrs, n) == IF n \in DOMAIN attrs THEN attrs[n] ELSE PyNone

\* a required_when / illegal_when predicate applied to the instance
EvalPred(p, attrs) == p.reads # "" /\ GetAttr(attrs, p.reads) = p.eq

Message(kind, a) == [msg |-> kind, name |-> NormalizeName(a.name)]

CheckRequirementsWhenPresent(a, attrs) ==
    IF EvalPred(a.illegal_when, attrs) THEN <<Message("illegal", a)>> ELSE <<>>

CheckRequirementsWhenMissing(a, attrs) ==
    (IF a.required THEN <<Message("required", a)>> ELSE <<>>)
    \o (IF EvalPred(a.required_when, attrs) THEN <<Message("required_when", a)>> ELSE <<>>)

\* variant: an empty value counts as missing (truthiness instead of "is None")
CheckRequirementTruthy(a, attrs) ==
    IF Truthy(GetAttr(attrs, a.name))
    THEN CheckRequirementsWhenPresent(a, attrs)
    ELSE CheckRequirementsWhenMissing(a, attrs)

\* the messages out.error prints for one argument; it is invalid iff any
CheckRequirement(a, attrs) ==
    IF GetAttr(attrs, a.name) # PyNone
    THEN CheckRequirementsWhenPresent(a, attrs)
    ELSE CheckRequirementsWhenMissing(a, attrs)

\* variant: any() over the lazy filter, which stops at the first invalid argument
RECURSIVE CheckFirst(_, _, _)
CheckFirst(args, attrs, i) ==
    IF i > Len(args) THEN <<>>
    ELSE IF CheckRequirement(args[i][2], attrs) # <<>>
         THEN CheckRequirement(args[i][2], attrs)
         ELSE CheckFirst(args, attrs, i + 1)

\* every argument is checked (the filter is made a list before any())
RECURSIVE CheckAll(_, _, _)
CheckAll(args, attrs, i) ==
    IF i > Len(args) THEN <<>>
    ELSE CheckRequirement(args[i][2], attrs) \o CheckAll(args, attrs, i + 1)

\* _check_required_arguments: [errors, raises]
CheckRequiredArguments(inst) ==
    LET errs == CheckAll(inst.arguments, inst.attrs, 1)
    IN [errors |-> errs, raises |-> errs # <<>>]

\* as_dict(instance)
AsDict(inst) == [n \in DictKeys(inst.arguments) |-> GetAttr(inst.attrs, n)]

(***************************************************************************)
(* Programs: the statements executed at import time                        *)
(***************************************************************************)
ClassStmt(name, bases, ns, decorated) ==
    [op |-> "class", name |-> name, bases |-> bases, ns |-> ns,
     decorated |-> decorated, meta |-> NoMeta, key |-> "", change |-> NoneAttr]

\* add_to_commandclass(<name>, <key>=<change>)
AddStmt(name, key, change) ==
    [op |-> "add", name |-> name, bases |-> <<>>, ns |-> Namespace(<<>>, NoCall, NoHook),
     decorated |-> FALSE, meta |-> NoMeta, key |-> key, change |-> change]

\* add_to_commandclass on a class, one change (a change that is neither an
\* Argument nor a command class raises TypeError and changes nothing)
AddToCommandclass(cls, key, change) ==
    CASE change.kind = "arg" ->
             [AddArgument(cls, key, change.arg) EXCEPT !.dict = DictSet(@, key, NoneAttr)]
      [] change.kind = "cmd" -> AddCommand(cls, key, change.cmd)
      [] OTHER -> cls

\* a change that is neither an Argument nor a command class (a string, say)
OtherAttr == [kind |-> "object", arg |-> NoArg, cmd |-> "", ann |-> PyNone]

\* the loop over changes.items(): args and cmds are the copies being edited,
\* dict the attributes of the target (setattr(target, a_name, None))
RECURSIVE ApplyChanges(_, _, _)
ApplyChanges(st, changes, i) ==
    IF i > Len(changes) \/ ~st.ok THEN st
    ELSE Let(CASE changes[i][2].kind = "arg" ->
                      [AddArgument(st, changes[i][1], changes[i][2].arg)
                          EXCEPT !.dict = DictSet(@, changes[i][1], NoneAttr)]
               [] changes[i][2].kind = "cmd" ->
                      AddCommand(st, changes[i][1], changes[i][2].cmd)
               [] OTHER -> [st EXCEPT !.ok = FALSE],
             LAMBDA s : ApplyChanges(s, changes, i + 1))

\* variant: the maps are stored on the target change by change
AddToCommandclassEagerly(cs, target, changes) ==
    IF ~IsCommandclass(cs, target)
    THEN [ok |-> FALSE, exc |-> "TypeError", cls |-> cs[target]]
    ELSE Let(ApplyChanges([ok |-> TRUE, arguments |-> Arguments(cs[target]),
                           commands |-> Commands(cs[target]), dict |-> cs[target].dict],
                          changes, 1),
             LAMBDA r : [ok |-> r.ok, exc |-> IF r.ok THEN "" ELSE "TypeError",
                         cls |-> [cs[target] EXCEPT !.arguments = r.arguments,
                                                    !.commands = r.commands,
                                                    !.dict = r.dict]])

\* add_to_commandclass(target, **changes): [ok, exc, cls], cls the target
\* afterwards; __arguments__ and __commands__ are set only after the loop
AddChangesToCommandclass(cs, target, changes) ==
    IF ~IsCommandclass(cs, target)
    THEN [ok |-> FALSE, exc |-> "TypeError", cls |-> cs[target]]
    ELSE Let(ApplyChanges([ok |-> TRUE, arguments |-> Arguments(cs[target]),
                           commands |-> Commands(cs[target]), dict |-> cs[target].dict],
                          changes, 1),
             LAMBDA r :
                 IF r.ok
                 THEN [ok |-> TRUE, exc |-> "",
                       cls |-> [cs[target] EXCEPT !.arguments = r.arguments,
                                                  !.commands = r.commands,
                                                  !.dict = r.dict]]
                 ELSE [ok |-> FALSE, exc |-> "TypeError",
                       cls |-> [cs[target] EXCEPT !.dict = r.dict]])

Exec(env, stmt) ==
    IF stmt.op = "class" THEN Declare(env, stmt)
    ELSE [env EXCEPT !.classes[stmt.name] = AddToCommandclass(@, stmt.key, stmt.change)]

RECURSIVE RunProgram(_, _)
RunProgram(env, prog) ==
    IF prog = <<>> THEN env
    ELSE Let(Exec(env, Head(prog)), LAMBDA e : RunProgram(e, Tail(prog)))

NoClasses == [c \in {} |-> NoneAttr]

EmptyEnv == [classes |-> NoClasses, REGISTRY |-> <<>>]

(***************************************************************************)
(* make_commandclass                                                       *)
(***************************************************************************)
\* the entries of args_or_cmds.  shape is "str" (a bare name), "cmd" (a
\* command class), "tuple" (of len elements) or "other" (not a string, a
\* command class or a sized object); isstr tells whether the name of a
\* tuple is a string; tp is the type, or a command class when tpcmd;
\* third is the third element: an Argument or another object
Entry(shape, len, name, isstr, tp, tpcmd, third) ==
    [shape |-> shape, len |-> len, name |-> name, isstr |-> isstr,
     tp |-> tp, tpcmd |-> tpcmd, third |-> third]

NoThird == [kind |-> "none", arg |-> NoArg]

ArgThird(a) == [kind |-> "arg", arg |-> a]

ObjectThird == [kind |-> "object", arg |-> NoArg]

StrEntry(n) == Entry("str", 0, n, TRUE, "str", FALSE, NoThird)

CmdEntry(c) == Entry("cmd", 0, "", TRUE, c, TRUE, NoThird)

PairEntry(n, tp) == Entry("tuple", 2, n, TRUE, tp, FALSE, NoThird)

CmdPairEntry(n, c) == Entry("tuple", 2, n, TRUE, c, TRUE, NoThird)

TripleEntry(n, tp, third) == Entry("tuple", 3, n, TRUE, tp, FALSE, third)

\* str.isidentifier(), over the names of the model
IsIdentifier(n) == n \notin {"%s", "", "foo-bar", "--a", "--dryrun", "show-help"}

\* keyword.iskeyword
IsKeyword(n) == n \in {"False", "None", "True", "class", "def"}

\* argument(**kwargs) made by make_commandclass for an entry without spec
FreshArgument(n) == Argument("argument() for " \o n, PyNone, FALSE, NoPred, NoPred)

MakeRaise(st, exc, msg) == [st EXCEPT !.ok = FALSE, !.exc = exc, !.msg = msg]

\* variant: no duplicate test
CheckNameNoDuplicates(st, a_name, tp, tpcmd) ==
    IF ~IsIdentifier(a_name) THEN MakeRaise(st, "ValueError", "is not a valid identifier")
    ELSE IF IsKeyword(a_name) THEN MakeRaise(st, "ValueError", "cannot be a keyword")
    ELSE IF tpcmd
         THEN [st EXCEPT !.seen = @ \cup {a_name},
                         !.namespace = DictSet(@, a_name, CmdAttr(tp))]
         ELSE [st EXCEPT !.seen = @ \cup {a_name},
                         !.anns = DictSet(@, a_name, tp)]

\* the checks on a_name after the entry was read, then seen / namespace /
\* anns are updated
CheckName(st, a_name, tp, tpcmd) ==
    IF ~IsIdentifier(a_name) THEN MakeRaise(st, "ValueError", "is not a valid identifier")
    ELSE IF IsKeyword(a_name) THEN MakeRaise(st, "ValueError", "cannot be a keyword")
    ELSE IF a_name \in st.seen THEN MakeRaise(st, "ValueError", "is a duplicate")
    ELSE IF tpcmd
         THEN [st EXCEPT !.seen = @ \cup {a_name},
                         !.namespace = DictSet(@, a_name, CmdAttr(tp))]
         ELSE [st EXCEPT !.seen = @ \cup {a_name},
                         !.anns = DictSet(@, a_name, tp)]

\* one iteration of the loop over args_or_cmds
ReadEntry(cs, st, e) ==
    CASE e.shape = "str" ->
             Let([st EXCEPT !.namespace = DictSet(@, DenormalizeName(e.name),
                                               ArgAttr(FreshArgument(e.name), PyNone))],
                 LAMBDA s : CheckName(s, DenormalizeName(e.name), "str", FALSE))
      [] e.shape = "cmd" ->
             CheckName(st, DenormalizeName(cs[e.tp].meta.name), e.tp, TRUE)
      [] e.shape = "other" ->
             MakeRaise(st, "TypeError", "has no len()")
      [] e.shape = "tuple" /\ e.len = 2 ->
             IF ~e.isstr THEN MakeRaise(st, "AttributeError", "has no attribute lstrip")
             ELSE IF e.tpcmd THEN CheckName(st, DenormalizeName(e.name), e.tp, TRUE)
             ELSE Let([st EXCEPT !.namespace = DictSet(@, DenormalizeName(e.name),
                                                    ArgAttr(FreshArgument(e.name), PyNone))],
                      LAMBDA s : CheckName(s, DenormalizeName(e.name), e.tp, FALSE))
      [] e.shape = "tuple" /\ e.len = 3 ->
             IF ~e.isstr THEN MakeRaise(st, "AttributeError", "has no attribute lstrip")
             ELSE IF e.third.kind = "arg"
                  THEN Let([st EXCEPT !.namespace = DictSet(@, DenormalizeName(e.name),
                                                         ArgAttr(e.third.arg, PyNone))],
                           LAMBDA s : CheckName(s, DenormalizeName(e.name), e.tp, e.tpcmd))
                  ELSE MakeRaise(st, "ValueError", "the spec must be an Argument")
      [] OTHER -> MakeRaise(st, "ValueError", "specs must be one of")

RECURSIVE ReadEntries(_, _, _, _)
ReadEntries(cs, st, entries, i) ==
    IF i > Len(entries) \/ ~st.ok THEN st
    ELSE Let(ReadEntry(cs, st, entries[i]), LAMBDA s : ReadEntries(cs, s, entries, i + 1))

\* namespace['__annotations__'] = anns: the annotation of each Argument
Annotated(namespace, anns) ==
    [i \in 1..Len(namespace) |->
        IF namespace[i][2].kind = "arg"
        THEN <<namespace[i][1],
               [namespace[i][2] EXCEPT !.ann = DictGetOr(anns, namespace[i][1], PyNone)]>>
        ELSE namespace[i]]

\* make_commandclass(cls_name, args_or_cmds, call=call, bases=bases):
\* [ok, exc, msg, env]; types.new_class, then commandclass(cls, name=...)
MakeCommandclass(env, cls_name, args_or_cmds, call, bases) ==
    Let(ReadEntries(env.classes,
            [ok |-> TRUE, exc |-> "", msg |-> "", namespace |-> <<>>, seen |-> {},
             anns |-> <<>>],
            args_or_cmds, 1),
        LAMBDA r :
            IF ~r.ok THEN [ok |-> FALSE, exc |-> r.exc, msg |-> r.msg, env |-> env]
            ELSE [ok |-> TRUE, exc |-> "", msg |-> "",
                  env |-> Declare(env,
                              ClassStmt(cls_name, bases,
                                  Namespace(Annotated(r.namespace, r.anns), call, NoHook),
                                  TRUE))])

(***************************************************************************)
(* The command trees of the dispatch specification: root -> mid -> leaf,   *)
(* each reached from its parent as the subcommand sub, each declared after *)
(* one of the Profiles                                                     *)
(***************************************************************************)
MaxTokens == 3

Profiles == {"bare", "req", "when", "dflt", "derived"}

StrArg(c, n, default, required, required_when, illegal_when) ==
    <<n, ArgAttr(Argument(c \o "." \o n, default, required, required_when, illegal_when), "str")>>

\* the Argument attributes of the class body
ProfileArgs(p, c) ==
    CASE p = "bare" -> <<>>
      [] p = "req" ->
             <<StrArg(c, "x", PyNone, TRUE, NoPred, NoPred),
               StrArg(c, "y", "d", FALSE, NoPred, WhenEq("x", PyNone))>>
      [] p = "dflt" ->
             <<StrArg(c, "x", "d", TRUE, NoPred, NoPred)>>
      [] OTHER ->
             <<StrArg(c, "x", PyNone, TRUE, WhenEq("y", "h"), NoPred),
               StrArg(c, "y", PyNone, FALSE, NoPred, NoPred)>>

ProfileHook(p) == IF p \in {"when", "derived"} THEN Normalise("y", "h") ELSE NoHook

SubAttr(child) == IF child = "" THEN <<>> ELSE <<<<"sub", CmdAttr(child)>>>>

\* the statements that declare class c with subcommand child
ProfileProgram(p, c, child) ==
    CASE p = "derived" ->
             \* @commandclass class <c>base: ...     @commandclass class <c>(<c>base): ...
             <<ClassStmt(c \o "base", <<>>,
                   Namespace(ProfileArgs(p, c) \o SubAttr(child), NoCall, NoHook), TRUE),
               ClassStmt(c, <<c \o "base">>, Namespace(<<>>, UserCall, ProfileHook(p)), TRUE)>>
      [] p = "dflt" ->
             \* add_to_commandclass(<c>, dryrun=argument(default=False))
             <<ClassStmt(c, <<>>,
                   Namespace(ProfileArgs(p, c) \o SubAttr(child), UserCall, ProfileHook(p)), TRUE),
               AddStmt(c, "dryrun",
                   ArgAttr(Argument(c \o ".dryrun", PyFalse, FALSE, NoPred, NoPred), PyNone))>>
      [] OTHER ->
             <<ClassStmt(c, <<>>,
                   Namespace(ProfileArgs(p, c) \o SubAttr(child), UserCall, ProfileHook(p)), TRUE)>>

TreeProgram(pr, pm, pl) ==
    ProfileProgram(pl, "leaf", "") \o ProfileProgram(pm, "mid", "leaf")
        \o ProfileProgram(pr, "root", "mid")

\* the tokens of an invocation
Alphabet ==
    {Flag("dryrun"), NoFlag("dryrun"), Opt("x", "a"), Opt("x", ""), Opt("y", "a"),
     Flag("u"), Word("sub"), Word("a")}

TokenSeqs == UNION {[1..n -> Alphabet] : n \in 0..MaxTokens}

(***************************************************************************)
(* One invocation: Commandclass.call, step by step                         *)
(***************************************************************************)
Top == stack[Len(stack)]

SetTop(fr) == [stack EXCEPT ![Len(stack)] = fr]

Ev(e) == Append(events, [e |-> e, d |-> Len(stack)])

NoResult == [kind |-> "none", val |-> PyNone]

Return(v) == [kind |-> "return", val |-> v]

Raise(x) == [kind |-> "raise", val |-> x]

Env == [classes |-> classes, REGISTRY |-> REGISTRY]

\* the root command is instantiated: root()
InstantiateRoot ==
    /\ pc = "new"
    /\ \E st \in {Instantiate(Env, BREADCRUMBS, "root")} :
          /\ classes' = st.env.classes
          /\ REGISTRY' = st.env.REGISTRY
          /\ BREADCRUMBS' = st.crumbs
          /\ stack' = <<st.inst>>
    /\ events' = Append(events, [e |-> "instantiate", d |-> 1])
    /\ pc' = "ready"
    /\ UNCHANGED <<pending, declared, result>>

\* the root instance is called with the tokens of the command line
Invoke ==
    /\ pc = "ready"
    /\ \E toks \in TokenSeqs :
           stack' = SetTop([Top EXCEPT !.tokens = toks, !.args = toks, !.kwargs = EmptyKw,
                                       !.level = classes[Top.cls].call.wraps])
    /\ pc' = "parse"
    /\ UNCHANGED <<classes, REGISTRY, BREADCRUMBS, pending, declared, events, result>>

\* parse: create_parser and parser(*args); the parsed values are set
Parse ==
    /\ pc = "parse"
    /\ \E r \in {Parser(Top, "main", Top.args)} :
          \/ /\ r.ok
             /\ stack' = SetTop([Top EXCEPT !.f = r.f, !.parsed = r.parsed, !.rest = r.args,
                                            !.attrs = SetParsedAttrs(@, r.parsed)])
             /\ events' = Ev("parse")
             /\ pc' = "after_parse"
             /\ UNCHANGED result
          \/ /\ ~r.ok
             /\ stack' = SetTop([Top EXCEPT !.err = r.err, !.matches = r.matches])
             /\ result' = Raise("SystemExit")
             /\ events' = Ev("parse_error")
             /\ pc' = "raised"
    /\ UNCHANGED <<classes, REGISTRY, BREADCRUMBS, pending, declared>>

\* parse, continued: after_parse(self_)
AfterParse ==
    /\ pc = "after_parse"
    /\ stack' = SetTop([Top EXCEPT !.attrs = AfterParseHook(classes[Top.cls].after_parse, @),
                                   !.hooks = @ + 1])
    /\ events' = Ev("after_parse")
    /\ pc' = "route"
    /\ UNCHANGED <<classes, REGISTRY, BREADCRUMBS, pending, declared, result>>

\* variant: before_call runs on the node before its subcommand is entered
DispatchChecked ==
    /\ pc = "route"
    /\ Top.f # "main"
    /\ \E st \in {Instantiate(Env, BREADCRUMBS, Top.f)} :
          /\ classes' = st.env.classes
          /\ REGISTRY' = st.env.REGISTRY
          /\ BREADCRUMBS' = st.crumbs
          /\ stack' = Append(
                 SetTop([Top EXCEPT !.errors = CheckRequiredArguments(Top).errors,
                                    !.seen = Top.attrs, !.checks = @ + 1]),
                 [st.inst EXCEPT !.tokens = Top.rest, !.args = Top.rest,
                                 !.kwargs = MergeKw(Top.kwargs, Top.parsed),
                                 !.level = st.env.classes[Top.f].call.wraps])
    /\ events' = Ev("check") \o <<[e |-> "instantiate", d |-> Len(stack) + 1]>>
    /\ pc' = "parse"
    /\ UNCHANGED <<pending, declared, result>>

\* variant: {**parsed, **kwargs}, the farthest ancestor's value is kept
DispatchFarthestWins ==
    /\ pc = "route"
    /\ Top.f # "main"
    /\ \E st \in {Instantiate(Env, BREADCRUMBS, Top.f)} :
          /\ classes' = st.env.classes
          /\ REGISTRY' = st.env.REGISTRY
          /\ BREADCRUMBS' = st.crumbs
          /\ stack' = Append(stack,
                 [st.inst EXCEPT !.tokens = Top.rest, !.args = Top.rest,
                                 !.kwargs = MergeKw(Top.parsed, Top.kwargs),
                                 !.level = st.env.classes[Top.f].call.wraps])
    /\ events' = Append(events, [e |-> "instantiate", d |-> Len(stack) + 1])
    /\ pc' = "parse"
    /\ UNCHANGED <<pending, declared, result>>

\* variant: the subcommand is passed the instance's attributes as they are
\* after the post-parse hook
DispatchAfterHook ==
    /\ pc = "route"
    /\ Top.f # "main"
    /\ \E st \in {Instantiate(Env, BREADCRUMBS, Top.f)} :
          /\ classes' = st.env.classes
          /\ REGISTRY' = st.env.REGISTRY
          /\ BREADCRUMBS' = st.crumbs
          /\ stack' = Append(stack,
                 [st.inst EXCEPT !.tokens = Top.rest, !.args = Top.rest,
                                 !.kwargs = MergeKw(Top.kwargs,
                                                [n \in DOMAIN Top.parsed |-> Top.attrs[n]]),
                                 !.level = st.env.classes[Top.f].call.wraps])
    /\ events' = Append(events, [e |-> "instantiate", d |-> Len(stack) + 1])
    /\ pc' = "parse"
    /\ UNCHANGED <<pending, declared, result>>

\* f is a subcommand: f().__call__(*args, **{**kwargs, **parsed})
Dispatch ==
    /\ pc = "route"
    /\ Top.f # "main"
    /\ \E st \in {Instantiate(Env, BREADCRUMBS, Top.f)} :
          /\ classes' = st.env.classes
          /\ REGISTRY' = st.env.REGISTRY
          /\ BREADCRUMBS' = st.crumbs
          /\ stack' = Append(stack,
                 [st.inst EXCEPT !.tokens = Top.rest, !.args = Top.rest,
                                 !.kwargs = MergeKw(Top.kwargs, Top.parsed),
                                 !.level = st.env.classes[Top.f].call.wraps])
    /\ events' = Append(events, [e |-> "instantiate", d |-> Len(stack) + 1])
    /\ pc' = "parse"
    /\ UNCHANGED <<pending, declared, result>>

\* variant: before_call sees the parsed values as they were before after_parse
BeforeCallBeforeHook ==
    /\ pc = "route"
    /\ Top.f = "main"
    /\ \E r \in {CheckRequiredArguments(
                     [Top EXCEPT !.attrs = MergeKw([n \in DOMAIN Top.attrs |-> PyNone],
                                                   Top.parsed)])} :
          /\ stack' = SetTop([Top EXCEPT !.errors = r.errors, !.seen = Top.attrs,
                                          !.checks = @ + 1])
          /\ \/ /\ r.raises
                /\ result' = Raise("InvalidArgumentException")
                /\ pc' = "raised"
             \/ /\ ~r.raises
                /\ pc' = "checked"
                /\ UNCHANGED result
    /\ events' = Ev("check")
    /\ UNCHANGED <<classes, REGISTRY, BREADCRUMBS, pending, declared>>

\* f is this command's own call: before_call(self_, *args, **kwargs)
BeforeCall ==
    /\ pc = "route"
    /\ Top.f = "main"
    /\ \E r \in {CheckRequiredArguments(Top)} :
          /\ stack' = SetTop([Top EXCEPT !.errors = r.errors, !.seen = Top.attrs,
                                          !.checks = @ + 1])
          /\ \/ /\ r.raises
                /\ result' = Raise("InvalidArgumentException")
                /\ pc' = "raised"
             \/ /\ ~r.raises
                /\ pc' = "checked"
                /\ UNCHANGED result
    /\ events' = Ev("check")
    /\ UNCHANGED <<classes, REGISTRY, BREADCRUMBS, pending, declared>>

\* self_.dryrun or kwargs.get('dryrun')
IsDryrun(fr) == Truthy(GetAttr(fr.attrs, "dryrun")) \/ Truthy(GetAttr(fr.kwargs, "dryrun"))

\* --dryrun: args, kwargs and as_dict(self_) are shown; None is returned
DryrunEcho ==
    /\ pc = "checked"
    /\ IsDryrun(Top)
    /\ events' = Ev("echo")
    /\ result' = Return(PyNone)
    /\ pc' = "done"
    /\ UNCHANGED <<classes, REGISTRY, BREADCRUMBS, pending, declared, stack>>

\* the call of inject_completions_command for instance inst: what out.show
\* prints, one name per line
Completions(cs, inst) ==
    SelectSeq(Choices(inst.commands),
              LAMBDA k : ~cs[DictGet(inst.commands, k)].meta.hidden)
    \o LET shown == SelectSeq(inst.arguments, LAMBDA e : e[2].show_help)
       IN [i \in 1..Len(shown) |-> "--" \o NormalizeName(shown[i][1])]

\* what the function fn of the node on top of stk prints with out.show; the
\* documentation and the completions are those of the instance they were
\* injected into, the node below
ActionOutput(cs, fn, stk) ==
    IF Len(stk) < 2 THEN <<>>
    ELSE CASE fn = "doc" -> <<"documentation of " \o cs[stk[Len(stk) - 1].cls].meta.name>>
           [] fn = "completions" -> Completions(cs, stk[Len(stk) - 1])
           [] OTHER -> <<>>

\* what the function of a namespace returns
ReturnOf(fn, c) == IF fn = "user" THEN "return of " \o c ELSE PyNone

\* variant: the wrapper calls f and drops what it returns
CallUserDropsValue ==
    /\ pc = "checked"
    /\ ~IsDryrun(Top)
    /\ Top.level = 1
    /\ stack' = SetTop([Top EXCEPT !.got = [args |-> Top.rest, kwargs |-> Top.kwargs],
                                   !.shown = ActionOutput(classes, classes[Top.cls].call.fn, stack)])
    /\ events' = Ev("action")
    /\ result' = Return(PyNone)
    /\ pc' = "done"
    /\ UNCHANGED <<classes, REGISTRY, BREADCRUMBS, pending, declared>>

\* return f(self_, *args, **kwargs) where f is the function of the namespace
CallUser ==
    /\ pc = "checked"
    /\ ~IsDryrun(Top)
    /\ Top.level = 1
    /\ stack' = SetTop([Top EXCEPT !.got = [args |-> Top.rest, kwargs |-> Top.kwargs],
                                   !.shown = ActionOutput(classes, classes[Top.cls].call.fn, stack)])
    /\ events' = Ev("action")
    /\ result' = Return(ReturnOf(classes[Top.cls].call.fn, Top.cls))
    /\ pc' = "done"
    /\ UNCHANGED <<classes, REGISTRY, BREADCRUMBS, pending, declared>>

\* return f(self_, *args, **kwargs) where f is the call of an earlier
\* construction of the class: the same instance is parsed again
CallInner ==
    /\ pc = "checked"
    /\ ~IsDryrun(Top)
    /\ Top.level > 1
    /\ stack' = SetTop([Top EXCEPT !.args = Top.rest, !.level = @ - 1])
    /\ pc' = "parse"
    /\ UNCHANGED <<classes, REGISTRY, BREADCRUMBS, pending, declared, events, result>>

Init ==
    /\ \E pr \in Profiles, pm \in Profiles, pl \in Profiles :
           /\ declared = TreeProgram(pr, pm, pl)
           /\ \E env \in {RunProgram(EmptyEnv, declared)} :
                  classes = env.classes /\ REGISTRY = env.REGISTRY
    /\ BREADCRUMBS = <<>>
    /\ pending = <<>>
    /\ stack = <<>>
    /\ pc = "new"
    /\ events = <<>>
    /\ result = NoResult

Next ==
    \/ InstantiateRoot
    \/ Invoke
    \/ Parse
    \/ AfterParse
    \/ Dispatch
    \/ BeforeCall
    \/ DryrunEcho
    \/ CallUser
    \/ CallInner

Spec == Init /\ [][Next]_vars

(***************************************************************************)
(* Invocations that reach the injected subcommands: a root command with or *)
(* without a __call__, an argument b, an argument h declared with          *)
(* show_help=False, a subcommand sub and a declared help subcommand,       *)
(* declared at once or as a decorated subclass of a command class          *)
(***************************************************************************)
MaxWords == 2

HiddenArg(item) == <<item[1], [item[2] EXCEPT !.arg.show_help = FALSE]>>

\* the body of the root command
RootBody(b, h, sub, help) ==
    (CASE b = "default" -> <<StrArg("root", "b", "d", FALSE, NoPred, NoPred)>>
       [] b = "required" -> <<StrArg("root", "b", PyNone, TRUE, NoPred, NoPred)>>
       [] OTHER -> <<>>)
    \o (IF h THEN <<HiddenArg(StrArg("root", "h", "d", FALSE, NoPred, NoPred))>> ELSE <<>>)
    \o (IF sub THEN <<<<"sub", CmdAttr("leaf")>>>> ELSE <<>>)
    \o (IF help THEN <<<<"help", CmdAttr("myhelp")>>>> ELSE <<>>)

BuiltinProgram(b, h, sub, help, call, derived) ==
    <<ClassStmt("leaf", <<>>, Namespace(<<>>, UserCall, NoHook), TRUE),
      ClassStmt("myhelp", <<>>, Namespace(<<>>, UserCall, NoHook), TRUE)>>
    \o (IF derived
        THEN <<ClassStmt("rootbase", <<>>, Namespace(<<>>, NoCall, NoHook), TRUE),
               ClassStmt("root", <<"rootbase">>,
                   Namespace(RootBody(b, h, sub, help), call, NoHook), TRUE)>>
        ELSE <<ClassStmt("root", <<>>,
                   Namespace(RootBody(b, h, sub, help), call, NoHook), TRUE)>>)

BuiltinPrograms ==
    {BuiltinProgram(b, h, sub, help, call, derived) :
        b \in {"none", "default", "required"}, h \in BOOLEAN, sub \in BOOLEAN,
        help \in BOOLEAN, call \in {NoCall, UserCall}, derived \in BOOLEAN}

BuiltinAlphabet ==
    {Flag("dryrun"), Opt("b", "a"), Word("sub"), Word("help"), Word("completions"),
     Word("sbu"), Word("hel"), Word("zzz")}

BuiltinTokenSeqs == UNION {[1..n -> BuiltinAlphabet] : n \in 0..MaxWords}

InitBuiltin ==
    /\ \E prog \in BuiltinPrograms :
           /\ declared = prog
           /\ \E env \in {RunProgram(EmptyEnv, prog)} :
                  classes = env.classes /\ REGISTRY = env.REGISTRY
    /\ BREADCRUMBS = <<>>
    /\ pending = <<>>
    /\ stack = <<>>
    /\ pc = "new"
    /\ events = <<>>
    /\ result = NoResult

\* the root instance is called with the tokens of the command line
InvokeBuiltin ==
    /\ pc = "ready"
    /\ \E toks \in BuiltinTokenSeqs :
           stack' = SetTop([Top EXCEPT !.tokens = toks, !.args = toks, !.kwargs = EmptyKw,
                                       !.level = classes[Top.cls].call.wraps])
    /\ pc' = "parse"
    /\ UNCHANGED <<classes, REGISTRY, BREADCRUMBS, pending, declared, events, result>>

NextBuiltin ==
    \/ InstantiateRoot
    \/ InvokeBuiltin
    \/ Parse
    \/ AfterParse
    \/ Dispatch
    \/ BeforeCall
    \/ DryrunEcho
    \/ CallUser
    \/ CallInner

SpecBuiltin == InitBuiltin /\ [][NextBuiltin]_vars

(***************************************************************************)
(* Repeated use: the root command is instantiated several times and an     *)
(* instance is called several times.  root has an argument x, an argument  *)
(* b with a default and the subcommand sub (leaf, with an argument y);     *)
(* it is declared at once, with a post-parse hook, as a decorated subclass *)
(* of a command class, or as a plain subclass of a command class that      *)
(* declares x again                                                        *)
(***************************************************************************)
MaxInvocations == 2

MaxInstances == 2

MaxRepeatTokens == 2

RepeatShapes == {"plain", "hook", "derived", "subclass"}

RepeatRootArgs ==
    <<StrArg("root", "x", PyNone, FALSE, NoPred, NoPred),
      StrArg("root", "b", "d", FALSE, NoPred, NoPred)>>

RepeatProgram(shape) ==
    <<ClassStmt("leaf", <<>>,
          Namespace(<<StrArg("leaf", "y", PyNone, FALSE, NoPred, NoPred)>>, UserCall, NoHook),
          TRUE)>>
    \o (CASE shape = "plain" ->
                 <<ClassStmt("root", <<>>,
                       Namespace(RepeatRootArgs \o SubAttr("leaf"), UserCall, NoHook), TRUE)>>
          [] shape = "hook" ->
                 <<ClassStmt("root", <<>>,
                       Namespace(RepeatRootArgs \o SubAttr("leaf"), UserCall,
                                 Normalise("x", "h")), TRUE)>>
          [] shape = "derived" ->
                 <<ClassStmt("rootbase", <<>>,
                       Namespace(RepeatRootArgs \o SubAttr("leaf"), NoCall, NoHook), TRUE),
                   ClassStmt("root", <<"rootbase">>, Namespace(<<>>, UserCall, NoHook), TRUE)>>
          [] OTHER ->
                 \* @commandclass class rootbase: ...     class root(rootbase): x: str = argument()
                 <<ClassStmt("rootbase", <<>>,
                       Namespace(RepeatRootArgs \o SubAttr("leaf"), NoCall, NoHook), TRUE),
                   ClassStmt("root", <<"rootbase">>,
                       Namespace(<<StrArg("root", "x", "c", FALSE, NoPred, NoPred)>>,
                                 UserCall, NoHook), FALSE)>>)

RepeatAlphabet ==
    {Flag("dryrun"), Opt("x", "a"), Opt("b", "a"), Opt("y", "a"), Word("sub"), Word("zzz")}

RepeatTokenSeqs == UNION {[1..n -> RepeatAlphabet] : n \in 0..MaxRepeatTokens}

\* how many times event e has happened at depth 1
CountAtRoot(e) == Cardinality({i \in 1..Len(events) : events[i] = [e |-> e, d |-> 1]})

InitRepeat ==
    /\ \E shape \in RepeatShapes :
           /\ declared = RepeatProgram(shape)
           /\ \E env \in {RunProgram(EmptyEnv, declared)} :
                  classes = env.classes /\ REGISTRY = env.REGISTRY
    /\ BREADCRUMBS = <<>>
    /\ pending = <<>>
    /\ stack = <<>>
    /\ pc = "new"
    /\ events = <<>>
    /\ result = NoResult

\* root() once more, after an invocation has returned or raised
InstantiateAgain ==
    /\ pc \in {"done", "raised"}
    /\ CountAtRoot("instantiate") < MaxInstances
    /\ \E st \in {Instantiate(Env, BREADCRUMBS, "root")} :
          /\ classes' = st.env.classes
          /\ REGISTRY' = st.env.REGISTRY
          /\ BREADCRUMBS' = st.crumbs
          /\ stack' = <<st.inst>>
    /\ events' = Append(events, [e |-> "instantiate", d |-> 1])
    /\ result' = NoResult
    /\ pc' = "ready"
    /\ UNCHANGED <<pending, declared>>

\* the root instance is called with the tokens of a command line: the first
\* time, or again after an invocation of it has returned or raised.  The
\* instance keeps its attributes; f, parsed and args are locals of call.
InvokeRepeat ==
    /\ pc \in {"ready", "done", "raised"}
    /\ CountAtRoot("invoke") < MaxInvocations
    /\ \E toks \in RepeatTokenSeqs :
           stack' = <<[stack[1] EXCEPT !.tokens = toks, !.args = toks, !.kwargs = EmptyKw,
                                       !.level = classes[stack[1].cls].call.wraps,
                                       !.f = "", !.parsed = EmptyKw, !.rest = <<>>,
                                       !.err = "", !.matches = <<>>]>>
    /\ events' = Append(events, [e |-> "invoke", d |-> 1])
    /\ result' = NoResult
    /\ pc' = "parse"
    /\ UNCHANGED <<classes, REGISTRY, BREADCRUMBS, pending, declared>>

NextRepeat ==
    \/ InstantiateRoot
    \/ InstantiateAgain
    \/ InvokeRepeat
    \/ Parse
    \/ AfterParse
    \/ Dispatch
    \/ BeforeCall
    \/ DryrunEcho
    \/ CallUser
    \/ CallInner

SpecRepeat == InitRepeat /\ [][NextRepeat]_vars

(***************************************************************************)
(* Properties of one invocation (specification Spec)                       *)
(***************************************************************************)
Frames == 1..Len(stack)

\* the names of the events of the node at depth d, in order
EventsAt(d) ==
    LET es == SelectSeq(events, LAMBDA ev : ev.d = d)
    IN [i \in 1..Len(es) |-> es[i].e]

IsPrefix(s, t) == Len(s) <= Len(t) /\ \A i \in 1..Len(s) : s[i] = t[i]

Happened(e) == \E i \in 1..Len(events) : events[i].e = e

\* the frames on which the requirement check has run
Checked == {i \in Frames : stack[i].checks > 0}

HasMessage(errors, kind, a) ==
    \E i \in 1..Len(errors) : errors[i] = [msg |-> kind, name |-> a.name]

CountMessages(errors, Keep(_)) == Cardinality({i \in 1..Len(errors) : Keep(errors[i])})

\* the positions of the tokens --n=v of a token list
Supplies(toks, n) == {i \in 1..Len(toks) : toks[i].k = "opt" /\ toks[i].name = n}

\* the value the node's tokens give argument a: that of the last --n=v, else
\* the default, else None
TokenValue(fr, a) ==
    IF Supplies(fr.tokens, a.name) # {}
    THEN fr.tokens[CHOOSE i \in Supplies(fr.tokens, a.name) :
                       \A j \in Supplies(fr.tokens, a.name) : j <= i].val
    ELSE a.default

\* the final value of the argument named n on node fr for this invocation:
\* the token value, normalised by the node's post-parse hook
FinalValue(fr, n) ==
    IF ~DictHas(fr.arguments, n) THEN PyNone
    ELSE LET v == TokenValue(fr, DictGet(fr.arguments, n))
             h == classes[fr.cls].after_parse
         IN IF h.kind = "user" /\ h.name = n /\ v # PyNone THEN h.val ELSE v

\* C1: for every node of the dispatch path the events are, in order:
\* instantiated, parsed (values set), post-parse hook exactly once, then
\* either the selected child is instantiated, or the requirement check runs
\* and only after it succeeded the dry-run echo or the leaf action; and no
\* child is instantiated before its parent's post-parse hook has run.
NodeEventOrder ==
    /\ \A d \in Frames :
          /\ \/ IsPrefix(EventsAt(d), <<"instantiate", "parse", "after_parse", "check", "echo">>)
             \/ IsPrefix(EventsAt(d), <<"instantiate", "parse", "after_parse", "check", "action">>)
             \/ EventsAt(d) = <<"instantiate", "parse_error">>
          /\ d < Len(stack) => EventsAt(d) = <<"instantiate", "parse", "after_parse">>
          /\ stack[d].hooks <= 1
          /\ (\E i \in 1..Len(EventsAt(d)) : EventsAt(d)[i] \in {"echo", "action"})
                => stack[d].errors = <<>>
    /\ \A i \in 1..Len(events) :
          (events[i].e = "instantiate" /\ events[i].d > 1)
             => \E j \in 1..(i - 1) : events[j] = [e |-> "after_parse", d |-> events[i].d - 1]

\* C3: the requirement check never runs on a node at which a subcommand was
\* selected; only the node of the invocation at which none was selected can
\* make the invocation fail with InvalidArgumentException.
CheckOnlyOnLeaf ==
    /\ \A i \in Frames :
          (i < Len(stack) \/ stack[i].f \notin {"", "main"})
             => /\ stack[i].checks = 0
                /\ stack[i].errors = <<>>
                /\ \A j \in 1..Len(events) : events[j] # [e |-> "check", d |-> i]
    /\ result = Raise("InvalidArgumentException")
          => Top.f = "main" /\ Top.errors # <<>>

\* an invocation returned although a required argument of an interior node
\* was never set
InteriorRequiredUnset ==
    /\ pc = "done"
    /\ result.kind = "return"
    /\ \E i \in Frames :
          /\ i < Len(stack)
          /\ \E k \in 1..Len(stack[i].arguments) :
                /\ stack[i].arguments[k][2].required
                /\ GetAttr(stack[i].attrs, stack[i].arguments[k][1]) = PyNone

\* C4: the check scans every argument of the leaf instance: a set argument
\* has an error iff illegal_when holds; an unset argument has an error iff
\* required, and independently one iff required_when holds; no message is
\* reported twice; the invocation fails with InvalidArgumentException iff at
\* least one error was recorded.
CheckScansEveryArgument ==
    \A i \in Checked :
       LET fr == stack[i]
       IN /\ \A k \in 1..Len(fr.arguments) :
                LET a == fr.arguments[k][2]
                IN IF GetAttr(fr.seen, a.name) # PyNone
                   THEN /\ HasMessage(fr.errors, "illegal", a) <=> EvalPred(a.illegal_when, fr.seen)
                        /\ ~HasMessage(fr.errors, "required", a)
                        /\ ~HasMessage(fr.errors, "required_when", a)
                   ELSE /\ HasMessage(fr.errors, "required", a) <=> a.required
                        /\ HasMessage(fr.errors, "required_when", a)
                              <=> EvalPred(a.required_when, fr.seen)
                        /\ ~HasMessage(fr.errors, "illegal", a)
          /\ \A p \in 1..Len(fr.errors), q \in 1..Len(fr.errors) :
                p # q => fr.errors[p] # fr.errors[q]
          /\ \A p \in 1..Len(fr.errors) : DictHas(fr.arguments, fr.errors[p].name)
          /\ (i = Len(stack) /\ pc \in {"checked", "done", "raised"})
                => ((fr.errors # <<>>)
                      <=> (pc = "raised" /\ result = Raise("InvalidArgumentException")))

\* the check failed with messages about two different arguments
TwoArgumentsReported ==
    /\ pc = "raised"
    /\ result = Raise("InvalidArgumentException")
    /\ \E p \in 1..Len(Top.errors), q \in 1..Len(Top.errors) :
          Top.errors[p].name # Top.errors[q].name

PredicatesSeeFinalValues ==
    \A i \in Checked :
       LET fr == stack[i]
       IN /\ fr.hooks >= 1
          /\ \A k \in 1..Len(fr.arguments) :
                LET a == fr.arguments[k][2]
                IN /\ a.type = "str" => GetAttr(fr.seen, a.name) = FinalValue(fr, a.name)
                   /\ (a.illegal_when.reads # "" /\ FinalValue(fr, a.name) # PyNone)
                         => (HasMessage(fr.errors, "illegal", a)
                               <=> FinalValue(fr, a.illegal_when.reads) = a.illegal_when.eq)
                   /\ (a.required_when.reads # "" /\ FinalValue(fr, a.name) = PyNone)
                         => (HasMessage(fr.errors, "required_when", a)
                               <=> FinalValue(fr, a.required_when.reads) = a.required_when.eq)

\* y (illegal when x is unset) stood before x in the tokens, x stands before
\* y in the argument map, and the check passed
PredicateReadsLaterArgument ==
    /\ pc = "done"
    /\ Top.checks > 0
    /\ Len(Top.tokens) >= 2
    /\ Top.tokens[1] = Opt("y", "a")
    /\ Top.tokens[2] = Opt("x", "a")
    /\ DictHas(Top.arguments, "y")
    /\ DictGet(Top.arguments, "y").illegal_when = WhenEq("x", PyNone)
    /\ Top.seen["x"] = "a"
    /\ Top.errors = <<>>

\* C7: if the dry-run value parsed by the leaf or by any ancestor on the
\* path is true, the leaf action is not invoked: a finished invocation has
\* only echoed.
DryrunShortCircuit ==
    (\E i \in Frames :
        "dryrun" \in DOMAIN stack[i].parsed /\ stack[i].parsed["dryrun"] = PyTrue)
       => /\ ~Happened("action")
          /\ pc = "done" => events[Len(events)].e = "echo"

\* C8: the leaf action receives exactly the parsed values of the ancestors
\* on the path, for a name parsed by several the value of the nearest; the
\* leaf's own parsed values are attributes of the leaf instance.
LeafActionKeywords ==
    (pc = "done" /\ Happened("action"))
       => LET n == Len(stack)
              kw == Top.got.kwargs
              Parsers(k) == {i \in 1..(n - 1) : k \in DOMAIN stack[i].parsed}
          IN /\ \A i \in 1..(n - 1) : DOMAIN stack[i].parsed \subseteq DOMAIN kw
             /\ \A k \in DOMAIN kw :
                   /\ Parsers(k) # {}
                   /\ kw[k] = stack[CHOOSE i \in Parsers(k) :
                                        \A j \in Parsers(k) : j <= i].parsed[k]
             /\ \A k \in DOMAIN Top.parsed :
                   /\ k \in DOMAIN Top.attrs
                   /\ k # classes[Top.cls].after_parse.name => Top.attrs[k] = Top.parsed[k]

\* the root and its subcommand parsed different values for y, and the action
\* of the third node received the subcommand's
NearestAncestorValueReceived ==
    /\ pc = "done"
    /\ Happened("action")
    /\ Len(stack) = 3
    /\ "y" \in DOMAIN stack[1].parsed
    /\ "y" \in DOMAIN stack[2].parsed
    /\ stack[1].parsed["y"] # stack[2].parsed["y"]
    /\ Top.got.kwargs["y"] = stack[2].parsed["y"]
    /\ Top.parsed # EmptyKw

\* C9: a successful invocation that is not a dry run invokes exactly one
\* leaf action, that of the last node of the path, and returns what it
\* returned; the action of a node at which a subcommand was selected is
\* never invoked.
ExactlyOneLeafAction ==
    /\ \A i \in 1..Len(events) :
          events[i].e = "action"
             => /\ events[i].d = Len(stack)
                /\ Top.f = "main"
                /\ \A j \in 1..Len(events) : events[j].e = "action" => j = i
    /\ (pc = "done" /\ ~Happened("echo"))
          => /\ Happened("action")
             /\ result = Return(IF classes[Top.cls].call.fn = "user"
                                THEN "return of " \o Top.cls ELSE PyNone)

\* the action of the third node of the path returned the invocation's value
LeafActionAtDepthThree ==
    /\ pc = "done"
    /\ Len(stack) = 3
    /\ events[Len(events)] = [e |-> "action", d |-> 3]
    /\ result = Return("return of leaf")

\* C30: the keyword values a node passes down to its selected subcommand
\* are the values its parse produced: what the node's post-parse hook does
\* to the node's attributes does not alter the keyword values its
\* descendants receive, while the node's own requirement check and leaf
\* action see the attributes as the hook left them.
HookChangesStayOnNode ==
    /\ \A i \in 2..Len(stack) :
          \A k \in 1..Len(stack[i - 1].arguments) :
             LET par == stack[i - 1]
                 a == par.arguments[k][2]
             IN a.type = "str"
                   => IF TokenValue(par, a) # PyNone
                      THEN /\ a.name \in DOMAIN stack[i].kwargs
                           /\ stack[i].kwargs[a.name] = TokenValue(par, a)
                      ELSE /\ a.name \in DOMAIN stack[i].kwargs
                              => /\ a.name \in DOMAIN par.kwargs
                                 /\ stack[i].kwargs[a.name] = par.kwargs[a.name]
    /\ \A i \in Checked :
          LET h == classes[stack[i].cls].after_parse
          IN (h.kind = "user" /\ h.name \in DOMAIN stack[i].parsed)
                => /\ stack[i].seen[h.name] = h.val
                   /\ stack[i].attrs[h.name] = h.val

\* the root's hook changed the parsed y from a to h, and the action of its
\* subcommand received y = a
ChildReceivedValueBeforeHook ==
    /\ pc = "done"
    /\ Happened("action")
    /\ Len(stack) = 2
    /\ classes["root"].after_parse = Normalise("y", "h")
    /\ "y" \in DOMAIN stack[1].parsed
    /\ stack[1].parsed["y"] = "a"
    /\ stack[1].attrs["y"] = "h"
    /\ stack[2].kwargs["y"] = "a"
    /\ Top.got.kwargs["y"] = "a"

(***************************************************************************)
(* Declaration and resolution (specification SpecResolve): the programs    *)
(* declare the chain base -> mid -> leaf, each class plain or decorated,   *)
(* each declaring any of the shared argument x and an argument of its own; *)
(* leaf may list a second base, base2, which declares x too; mid, base2    *)
(* and leaf may declare a subcommand sub; leaf may declare its own dryrun  *)
(***************************************************************************)
Chain == <<"base", "mid", "leaf">>

\* the argument names a class of the chain may declare
MayDeclare(c) ==
    CASE c = "base" -> {"x", "b"}
      [] c = "mid" -> {"x", "m"}
      [] OTHER -> {"x", "l"}

\* class <c>(<base>): <n>: str = argument(default='<c>') for each n of own,
\* x first
ChainStmt(i, own, decorated) ==
    ClassStmt(Chain[i], IF i = 1 THEN <<>> ELSE <<Chain[i - 1]>>,
        Namespace(
            (IF "x" \in own
             THEN <<StrArg(Chain[i], "x", Chain[i], FALSE, NoPred, NoPred)>> ELSE <<>>)
            \o [k \in 1..Cardinality(own \ {"x"}) |->
                   StrArg(Chain[i], CHOOSE n \in own : n # "x", Chain[i], FALSE, NoPred, NoPred)],
            NoCall, NoHook),
        decorated)

\* the command classes that serve as subcommands
Targets ==
    <<ClassStmt("cmdx", <<>>, Namespace(<<>>, UserCall, NoHook), TRUE),
      ClassStmt("cmdy", <<>>, Namespace(<<>>, UserCall, NoHook), TRUE)>>

\* the statement with one more attribute at the end of its body
WithAttr(stmt, n, item) == [stmt EXCEPT !.ns.dict = Append(@, <<n, item>>)]

\* sub = <target>
WithSub(stmt, has, target) ==
    IF has THEN WithAttr(stmt, "sub", CmdAttr(target)) ELSE stmt

\* dryrun: str = argument(default='<c>')
WithOwnDryrun(stmt, has) ==
    IF has THEN WithAttr(stmt, "dryrun", StrArg(stmt.name, "dryrun", stmt.name, FALSE, NoPred, NoPred)[2])
    ELSE stmt

WithBases(stmt, bases) == [stmt EXCEPT !.bases = bases]

\* class base2: x: str = argument(default='base2')
Base2Stmt(sub, decorated) ==
    WithSub(ClassStmt("base2", <<>>,
                Namespace(<<StrArg("base2", "x", "base2", FALSE, NoPred, NoPred)>>, NoCall, NoHook),
                decorated),
            sub, "cmdy")

ChainPrograms ==
    {Targets \o
     <<ChainStmt(1, ob, db),
       Base2Stmt(s2, d2),
       WithSub(ChainStmt(2, om, dm), sm, "cmdx"),
       WithBases(WithOwnDryrun(WithSub(ChainStmt(3, ol, dl), sl, "cmdy"), dr),
                 IF two THEN <<"mid", "base2">> ELSE <<"mid">>)>> :
        ob \in SUBSET MayDeclare("base"), om \in SUBSET MayDeclare("mid"),
        ol \in SUBSET MayDeclare("leaf"), db \in BOOLEAN, dm \in BOOLEAN, dl \in BOOLEAN,
        s2 \in BOOLEAN, d2 \in BOOLEAN, sm \in BOOLEAN, sl \in BOOLEAN, dr \in BOOLEAN,
        two \in BOOLEAN}

InitResolve ==
    /\ pending \in ChainPrograms
    /\ declared = <<>>
    /\ classes = NoClasses
    /\ REGISTRY = <<>>
    /\ BREADCRUMBS = <<>>
    /\ stack = <<>>
    /\ pc = "import"
    /\ events = <<>>
    /\ result = NoResult

\* the next statement of the module is executed
Import ==
    /\ pc = "import"
    /\ pending # <<>>
    /\ \E env \in {Exec(Env, Head(pending))} :
          classes' = env.classes /\ REGISTRY' = env.REGISTRY
    /\ declared' = Append(declared, Head(pending))
    /\ pending' = Tail(pending)
    /\ UNCHANGED <<BREADCRUMBS, stack, pc, events, result>>

NextResolve == Import

SpecResolve == InitResolve /\ [][NextResolve]_vars

(***************************************************************************)
(* Dynamic construction and modification: one call of make_commandclass    *)
(* or of add_to_commandclass, after the declarations of DynBase            *)
(***************************************************************************)
MaxSpecs == 2

MaxChanges == 2

\* @commandclass cmdx, cmdy;  class plain;  @commandclass class cmdz with an
\* argument x and the subcommand sub = cmdx
DynBase ==
    Targets \o
    <<ClassStmt("plain", <<>>, Namespace(<<>>, NoCall, NoHook), FALSE),
      ClassStmt("cmdz", <<>>,
          Namespace(<<StrArg("cmdz", "x", "d", FALSE, NoPred, NoPred),
                      <<"sub", CmdAttr("cmdx")>>>>, UserCall, NoHook), TRUE)>>

DynBaseEnv == RunProgram(EmptyEnv, DynBase)

DynArgument(n, default) == Argument("spec of " \o n, default, FALSE, NoPred, NoPred)

\* the entries a spec list is made of
SpecEntries ==
    {StrEntry("a"), StrEntry("foo-bar"), StrEntry("foo_bar"), StrEntry("cmdx"),
     StrEntry("%s"), StrEntry("False"),
     CmdEntry("cmdx"),
     PairEntry("a", "int"), CmdPairEntry("sub", "cmdy"),
     [PairEntry("a", "str") EXCEPT !.isstr = FALSE],
     TripleEntry("a", "str", ArgThird(DynArgument("a", "d"))),
     TripleEntry("dryrun", "str", ArgThird(DynArgument("dryrun", "x"))),
     TripleEntry("a", "str", ObjectThird),
     Entry("tuple", 4, "a", TRUE, "str", FALSE, ObjectThird),
     Entry("other", 0, "", FALSE, "", FALSE, NoThird)}

SpecLists == UNION {[1..n -> SpecEntries] : n \in 0..MaxSpecs}

\* the changes of one add_to_commandclass call: distinct keywords
ChangeItems ==
    {"y", "x", "foo_bar", "sub"}
        \X {ArgAttr(DynArgument("new", "n"), PyNone), CmdAttr("cmdy"), OtherAttr}

ChangeLists ==
    {cl \in UNION {[1..n -> ChangeItems] : n \in 0..MaxChanges} :
        \A i \in 1..Len(cl), j \in 1..Len(cl) : i # j => cl[i][1] # cl[j][1]}

MakeRequest(entries) ==
    [op |-> "make", name |-> "dyn", entries |-> entries, changes |-> <<>>]

AddRequest(target, changes) ==
    [op |-> "add", name |-> target, entries |-> <<>>, changes |-> changes]

DynRequests ==
    {MakeRequest(entries) : entries \in SpecLists}
    \cup {AddRequest(target, changes) : target \in {"cmdz", "plain"}, changes \in ChangeLists}

InitDynamic ==
    /\ classes = DynBaseEnv.classes
    /\ REGISTRY = DynBaseEnv.REGISTRY
    /\ BREADCRUMBS = <<>>
    /\ \E req \in DynRequests : pending = <<req>>
    /\ declared = <<>>
    /\ stack = <<>>
    /\ pc = "call"
    /\ events = <<>>
    /\ result = NoResult

\* dyn = make_commandclass('dyn', entries)
CallMakeCommandclass ==
    /\ pc = "call"
    /\ pending # <<>>
    /\ Head(pending).op = "make"
    /\ \E r \in {MakeCommandclass(Env, Head(pending).name, Head(pending).entries,
                                  UserCall, <<>>)} :
          /\ classes' = r.env.classes
          /\ REGISTRY' = r.env.REGISTRY
          /\ result' = IF r.ok THEN Return(Head(pending).name) ELSE Raise(r.exc)
          /\ events' = IF r.ok THEN events ELSE Append(events, [e |-> r.msg, d |-> 0])
    /\ pending' = Tail(pending)
    /\ declared' = Append(declared, Head(pending))
    /\ pc' = "returned"
    /\ UNCHANGED <<BREADCRUMBS, stack>>

\* add_to_commandclass(target, **changes)
CallAddToCommandclass ==
    /\ pc = "call"
    /\ pending # <<>>
    /\ Head(pending).op = "add"
    /\ \E r \in {AddChangesToCommandclass(classes, Head(pending).name, Head(pending).changes)} :
          /\ classes' = [classes EXCEPT ![Head(pending).name] = r.cls]
          /\ result' = IF r.ok THEN Return(PyNone) ELSE Raise(r.exc)
    /\ pending' = Tail(pending)
    /\ declared' = Append(declared, Head(pending))
    /\ pc' = "returned"
    /\ UNCHANGED <<REGISTRY, BREADCRUMBS, stack, events>>

NextDynamic ==
    \/ CallMakeCommandclass
    \/ CallAddToCommandclass

SpecDynamic == InitDynamic /\ [][NextDynamic]_vars

(***************************************************************************)
(* Properties of resolution (specification SpecResolve)                    *)
(***************************************************************************)
\* the class statement that declared c
StmtOf(c) == declared[CHOOSE i \in 1..Len(declared) : declared[i].name = c]

\* c's body declares an Argument under n
Declares(c, n) ==
    /\ DictHas(StmtOf(c).ns.dict, n)
    /\ DictGet(StmtOf(c).ns.dict, n).kind = "arg"

\* the Argument object c's body declares under n
OwnDecl(c, n) == DictGet(StmtOf(c).ns.dict, n).arg.decl

\* c and its ancestors, nearest first
RECURSIVE Lineage(_)
Lineage(c) ==
    IF StmtOf(c).bases = <<>> THEN <<c>> ELSE <<c>> \o Lineage(StmtOf(c).bases[1])

CommandClasses == {c \in DOMAIN classes : classes[c].iscmd}

ArgNames == {"x", "b", "m", "l"}

\* C2: an argument a command declaration declares under a name it also
\* inherits resolves to the declaration's own Argument; so with Mid
\* redeclaring a name of Base, Leaf's entry for the name is Mid's.
MostDerivedWins ==
    \A c \in CommandClasses : \A n \in ArgNames :
       LET L == Lineage(c)
           D == {i \in 1..Len(L) : Declares(L[i], n)}
       IN Cardinality(D) >= 2
             => /\ DictHas(Arguments(classes[c]), n)
                /\ DictGet(Arguments(classes[c]), n).decl
                      = OwnDecl(L[CHOOSE i \in D : \A j \in D : i <= j], n)

\* C10: an argument declared on an ancestor of a command declaration and not
\* redeclared nearer to it is in the declaration's resolved argument map,
\* under the same name.
AncestorArgumentsResolved ==
    \A c \in CommandClasses : \A n \in ArgNames :
       LET L == Lineage(c)
           D == {i \in 2..Len(L) : Declares(L[i], n)}
       IN (D # {} /\ ~Declares(c, n))
             => /\ DictHas(Arguments(classes[c]), n)
                /\ DictGet(Arguments(classes[c]), n).decl
                      = OwnDecl(L[CHOOSE i \in D : \A j \in D : i <= j], n)

\* C11: in a chain Base -> Mid -> Leaf, an argument declared only on Base is
\* recorded in Leaf's inherited-arguments record under Base's name, and not
\* under the name of the intermediate ancestor.
InheritedUnderDeclaringAncestor ==
    \A c \in CommandClasses : \A n \in ArgNames :
       LET L == Lineage(c)
           inh == classes[c].inherited_arguments
       IN (Len(L) = 3 /\ Declares(L[3], n) /\ ~Declares(L[2], n) /\ ~Declares(c, n))
             => /\ DictHas(inh, L[3])
                /\ DictHas(DictGet(inh, L[3]), n)
                /\ ~(DictHas(inh, L[2]) /\ DictHas(DictGet(inh, L[2]), n))

\* the Argument a base contributes under n ("" when none): for a command
\* class the entry of its resolved map, for a plain class what its own
\* bases contribute, in listed order, and else what its body declares
RECURSIVE Provides(_, _)
RECURSIVE ProvidesFirst(_, _)
Provides(b, n) ==
    IF classes[b].iscmd
    THEN (IF DictHas(Arguments(classes[b]), n)
          THEN DictGet(Arguments(classes[b]), n).decl ELSE "")
    ELSE IF ProvidesFirst(classes[b].bases, n) # "" THEN ProvidesFirst(classes[b].bases, n)
    ELSE IF Declares(b, n) THEN OwnDecl(b, n)
    ELSE ""

ProvidesFirst(bases, n) ==
    IF bases = <<>> THEN ""
    ELSE IF Provides(Head(bases), n) # "" THEN Provides(Head(bases), n)
    ELSE ProvidesFirst(Tail(bases), n)

\* C12: when two listed bases both contribute an argument of the same name
\* and the declaration does not declare it, the declaration is built and its
\* resolved argument is the one of the base listed first.
FirstListedBaseWins ==
    \A c \in CommandClasses : \A n \in ArgNames :
       LET bases == StmtOf(c).bases
       IN (Len(bases) = 2 /\ ~Declares(c, n)
             /\ Provides(bases[1], n) # "" /\ Provides(bases[2], n) # "")
             => /\ DictHas(Arguments(classes[c]), n)
                /\ DictGet(Arguments(classes[c]), n).decl = Provides(bases[1], n)

\* leaf lists mid and base2, both contribute x, as different Arguments, and
\* leaf is built
TwoBasesSameArgument ==
    /\ "leaf" \in CommandClasses
    /\ StmtOf("leaf").bases = <<"mid", "base2">>
    /\ ~Declares("leaf", "x")
    /\ Provides("mid", "x") # ""
    /\ Provides("base2", "x") = "base2.x"
    /\ DictGet(Arguments(classes["leaf"]), "x").decl = Provides("mid", "x")

\* c's body declares a subcommand under sub
DeclaresSub(c) ==
    /\ DictHas(StmtOf(c).ns.dict, "sub")
    /\ DictGet(StmtOf(c).ns.dict, "sub").kind = "cmd"

OwnSub(c) == DictGet(StmtOf(c).ns.dict, "sub").cmd

\* the subcommand a base contributes under sub ("" when none)
RECURSIVE ProvidesSub(_)
ProvidesSub(b) ==
    IF classes[b].iscmd
    THEN (IF HasCommand(classes[b], "sub") THEN DictGet(Commands(classes[b]), "sub") ELSE "")
    ELSE IF DeclaresSub(b) THEN OwnSub(b)
    ELSE IF classes[b].bases # <<>> THEN ProvidesSub(classes[b].bases[1])
    ELSE ""

\* C13: a subcommand declared on a command declaration takes precedence over
\* one of the same name contributed by a base: the resolved subcommand map
\* holds the declaration's own.
OwnSubcommandWins ==
    \A c \in CommandClasses :
       (DeclaresSub(c) /\ \E i \in 1..Len(StmtOf(c).bases) : ProvidesSub(StmtOf(c).bases[i]) # "")
          => /\ HasCommand(classes[c], "sub")
             /\ DictGet(Commands(classes[c]), "sub") = OwnSub(c)

\* C14: when two listed bases both contribute a subcommand of the same name
\* and the declaration does not declare it, the resolved subcommand is the
\* one of the base listed first.
FirstListedBaseSubcommandWins ==
    \A c \in CommandClasses :
       LET bases == StmtOf(c).bases
       IN (Len(bases) = 2 /\ ~DeclaresSub(c)
             /\ ProvidesSub(bases[1]) # "" /\ ProvidesSub(bases[2]) # "")
             => /\ HasCommand(classes[c], "sub")
                /\ DictGet(Commands(classes[c]), "sub") = ProvidesSub(bases[1])

\* c and all its ancestors, through every listed base
RECURSIVE Ancestry(_)
Ancestry(c) ==
    {c} \cup UNION {Ancestry(StmtOf(c).bases[i]) : i \in 1..Len(StmtOf(c).bases)}

\* C15: every resolved argument map has the argument dryrun, of type bool,
\* and its keys are exactly the argument names declared by the declaration
\* and its ancestors, plus dryrun.
DryrunAndExactKeys ==
    \A c \in CommandClasses :
       /\ DictHas(Arguments(classes[c]), "dryrun")
       /\ DictGet(Arguments(classes[c]), "dryrun").type = "bool"
       /\ DictKeys(Arguments(classes[c]))
             = {"dryrun"} \cup {n \in ArgNames : \E a \in Ancestry(c) : Declares(a, n)}

\* C16: a declaration's own argument named dryrun is the dryrun entry of its
\* resolved argument map.
OwnDryrunShadows ==
    \A c \in CommandClasses :
       Declares(c, "dryrun")
          => DictGet(Arguments(classes[c]), "dryrun").decl = OwnDecl(c, "dryrun")

(***************************************************************************)
(* Properties of the injected subcommands (specification SpecBuiltin)      *)
(***************************************************************************)
\* the node at depth d has run its leaf action
ActedAt(d) == \E j \in 1..Len(events) : events[j] = [e |-> "action", d |-> d]

Sorted(seq) == SortSeq(seq, StrLess)

\* C18: every instantiated node has a hidden subcommand completions, and
\* its action prints exactly the node's non-hidden subcommand names in
\* sorted order followed by the flags of its show_help arguments in sorted
\* name order.
CompletionsSorted ==
    /\ \A i \in Frames :
          /\ DictHas(stack[i].commands, "completions")
          /\ classes[DictGet(stack[i].commands, "completions")].meta.hidden
    /\ \A i \in Frames :
          (i > 1 /\ classes[stack[i].cls].call.fn = "completions" /\ ActedAt(i))
             => LET node == stack[i - 1]
                    cmds == SelectSeq(Choices(node.commands),
                               LAMBDA k : ~classes[DictGet(node.commands, k)].meta.hidden)
                    args == SelectSeq(Choices(node.arguments),
                               LAMBDA k : DictGet(node.arguments, k).show_help)
                IN stack[i].shown
                      = Sorted(cmds) \o [k \in 1..Len(args) |-> "--" \o Sorted(args)[k]]

\* C19: a node whose type was declared without __call__, invoked as leaf
\* with its requirements satisfied and dry-run unset, renders its own
\* documentation.
DefaultActionRendersDocumentation ==
    (/\ pc = "done"
     /\ Top.f = "main"
     /\ classes[Top.cls].call.fn = "PASS"
     /\ ActedAt(Len(stack)))
       => Top.shown = <<"documentation of " \o classes[Top.cls].meta.name>>

\* the positions of the words among the arguments handed to a node
WordsOf(fr) == {k \in 1..Len(fr.args) : fr.args[k].k = "word"}

\* the selector token of a node: the first word
Selector(fr) == fr.args[CHOOSE k \in WordsOf(fr) : \A j \in WordsOf(fr) : k <= j].val

\* C20: when the selector token of a node names none of its subcommands the
\* invocation fails at that node: it raises, no child is instantiated, the
\* node's post-parse hook, requirement check and action do not run, and the
\* error reported for the invalid choice names exactly the subcommands
\* close to the token (at most three).
UnknownSubcommandFails ==
    \A i \in Frames :
       LET fr == stack[i]
           close == {c \in DictKeys(fr.commands) : IsClose(c, Selector(fr))}
           named == {fr.matches[k] : k \in 1..Len(fr.matches)}
       IN (/\ i < Len(stack) \/ pc \notin {"ready", "parse"}
           /\ WordsOf(fr) # {}
           /\ ~DictHas(fr.commands, Selector(fr)))
             => /\ i = Len(stack)
                /\ pc = "raised"
                /\ result = Raise("SystemExit")
                /\ fr.hooks = 0
                /\ fr.checks = 0
                /\ EventsAt(i) = <<"instantiate", "parse_error">>
                /\ fr.err = "invalid choice"
                      => /\ named \subseteq close
                         /\ Len(fr.matches) = Cardinality(named)
                         /\ Cardinality(close) <= 3 => named = close

\* the token sbu at a node with the subcommand sub: sub is suggested
NearMissSuggested ==
    /\ pc = "raised"
    /\ result = Raise("SystemExit")
    /\ Len(stack) = 1
    /\ Top.args = <<Opt("b", "a"), Word("sbu")>>
    /\ DictHas(Top.commands, "sub")
    /\ Top.err = "invalid choice"
    /\ Top.matches = <<"sub">>

(***************************************************************************)
(* Properties of dynamic construction and modification (SpecDynamic)       *)
(***************************************************************************)
\* the call that was made
Request == declared[1]

Made == pc = "returned" /\ Request.op = "make"

Added == pc = "returned" /\ Request.op = "add"

\* the entry names a string (a bare name, a command class, a tuple whose
\* first element is a string)
HasName(e) == e.shape \in {"str", "cmd"} \/ (e.shape = "tuple" /\ e.isstr)

\* the name the entry gives, as written
RawName(e) == IF e.shape = "cmd" THEN classes[e.tp].meta.name ELSE e.name

\* the entry declares a subcommand
IsCommandEntry(e) == e.shape = "cmd" \/ (e.shape = "tuple" /\ e.tpcmd)

\* one of: name, command class, (name, type), (name, type, Argument)
WellShaped(e) ==
    \/ e.shape \in {"str", "cmd"}
    \/ e.shape = "tuple" /\ e.isstr /\ e.len = 2
    \/ e.shape = "tuple" /\ e.isstr /\ e.len = 3 /\ e.third.kind = "arg"

DistinctNames(entries) ==
    \A i \in 1..Len(entries), j \in 1..Len(entries) :
       i # j => DenormalizeName(RawName(entries[i])) # DenormalizeName(RawName(entries[j]))

\* nothing was created or registered by the call
NothingCreated == classes = DynBaseEnv.classes /\ REGISTRY = DynBaseEnv.REGISTRY

\* C21: for a spec list of names, (name, type), (name, type, Argument) and
\* subcommands, with distinct names that are identifiers and no keywords,
\* the command is built, every declared argument is in its resolved map
\* with its declared type (str for a bare name) and its declared default,
\* and every declared subcommand is in its subcommand map.
DynamicRoundTrip ==
    (/\ Made
     /\ \A i \in 1..Len(Request.entries) :
           /\ WellShaped(Request.entries[i])
           /\ IsIdentifier(RawName(Request.entries[i]))
           /\ ~IsKeyword(RawName(Request.entries[i]))
     /\ DistinctNames(Request.entries))
       => /\ result = Return("dyn")
          /\ "dyn" \in DOMAIN classes
          /\ \A i \in 1..Len(Request.entries) :
                LET e == Request.entries[i]
                IN IF IsCommandEntry(e)
                   THEN /\ HasCommand(classes["dyn"], NormalizeName(RawName(e)))
                        /\ DictGet(Commands(classes["dyn"]), NormalizeName(RawName(e))) = e.tp
                   ELSE /\ DictHas(Arguments(classes["dyn"]), e.name)
                        /\ DictGet(Arguments(classes["dyn"]), e.name).type = e.tp
                        /\ DictGet(Arguments(classes["dyn"]), e.name).default
                              = IF e.third.kind = "arg" THEN e.third.arg.default ELSE PyNone

\* C22: a spec list of named entries in which two entries, arguments or
\* subcommands in any mix, have the same name after normalisation is
\* rejected with ValueError and nothing is created; when the entries are
\* otherwise valid the error is the duplicate-name error.
DuplicateNamesRejected ==
    (/\ Made
     /\ \A i \in 1..Len(Request.entries) : HasName(Request.entries[i])
     /\ ~DistinctNames(Request.entries))
       => /\ result = Raise("ValueError")
          /\ NothingCreated
          /\ (\A i \in 1..Len(Request.entries) :
                 /\ WellShaped(Request.entries[i])
                 /\ IsIdentifier(DenormalizeName(RawName(Request.entries[i])))
                 /\ ~IsKeyword(RawName(Request.entries[i])))
                => events = <<[e |-> "is a duplicate", d |-> 0]>>

\* a command class and an argument of the same name, and two names equal
\* only after normalisation
DuplicateAcrossKinds ==
    /\ Made
    /\ Request.entries \in {<<CmdEntry("cmdx"), StrEntry("cmdx")>>,
                            <<StrEntry("foo-bar"), StrEntry("foo_bar")>>}
    /\ result = Raise("ValueError")
    /\ events = <<[e |-> "is a duplicate", d |-> 0]>>
    /\ "dyn" \notin DOMAIN classes

\* C23: a spec list with an entry whose name (after normalisation) is no
\* identifier or is a keyword, or whose shape is none of name, command
\* class, (name, type), (name, type, Argument), is rejected with ValueError
\* and nothing is created or registered.
MalformedSpecsRejected ==
    (/\ Made
     /\ \E i \in 1..Len(Request.entries) :
           \/ ~WellShaped(Request.entries[i])
           \/ ~IsIdentifier(DenormalizeName(RawName(Request.entries[i])))
           \/ IsKeyword(RawName(Request.entries[i])))
       => /\ result = Raise("ValueError")
          /\ NothingCreated

\* the keywords of the changes of the call
ChangedKeys == {Request.changes[i][1] : i \in 1..Len(Request.changes)}

\* the maps of the target hold, under names not written by the call, what
\* they held before: Written is the set of map keys the call writes
OthersKept(before, after, Written) ==
    /\ \A k \in DictKeys(before) \ Written :
          DictHas(after, k) /\ DictGet(after, k) = DictGet(before, k)
    /\ DictKeys(after) \subseteq DictKeys(before) \cup Written

\* C24 as stated: after add_to_commandclass(target, n=X) returns, X is in
\* the target's argument map (an Argument) or subcommand map (a command
\* class) under n, and the entries under other names are unchanged.
AddedUnderGivenName ==
    (Added /\ result.kind = "return")
       => LET before == DynBaseEnv.classes[Request.name]
              after == classes[Request.name]
          IN /\ \A i \in 1..Len(Request.changes) :
                   LET n == Request.changes[i][1]
                       X == Request.changes[i][2]
                   IN IF X.kind = "arg"
                      THEN /\ DictHas(Arguments(after), n)
                           /\ DictGet(Arguments(after), n).decl = X.arg.decl
                      ELSE /\ DictHas(Commands(after), n)
                           /\ DictGet(Commands(after), n) = X.cmd
             /\ OthersKept(Arguments(before), Arguments(after), ChangedKeys)
             /\ OthersKept(Commands(before), Commands(after), ChangedKeys)

\* C24 amended: an Argument is stored under n, a command class under n
\* with its underscores turned into dashes; the entries under other names
\* are unchanged.
AddedUnderNormalisedName ==
    (Added /\ result.kind = "return")
       => LET before == DynBaseEnv.classes[Request.name]
              after == classes[Request.name]
              argkeys == {Request.changes[i][1] :
                             i \in {j \in 1..Len(Request.changes) :
                                       Request.changes[j][2].kind = "arg"}}
              cmdkeys == {NormalizeName(Request.changes[i][1]) :
                             i \in {j \in 1..Len(Request.changes) :
                                       Request.changes[j][2].kind = "cmd"}}
          IN /\ \A i \in 1..Len(Request.changes) :
                   LET n == Request.changes[i][1]
                       X == Request.changes[i][2]
                   IN IF X.kind = "arg"
                      THEN /\ DictHas(Arguments(after), n)
                           /\ DictGet(Arguments(after), n).decl = X.arg.decl
                      ELSE /\ DictHas(Commands(after), NormalizeName(n))
                           /\ DictGet(Commands(after), NormalizeName(n)) = X.cmd
             /\ OthersKept(Arguments(before), Arguments(after), argkeys)
             /\ OthersKept(Commands(before), Commands(after), cmdkeys)

\* add_to_commandclass(cmdz, sub=cmdy, foo_bar=cmdy) returned: sub was
\* replaced, foo-bar added
SubcommandReplacedAndAdded ==
    /\ Added
    /\ Request.name = "cmdz"
    /\ Request.changes = <<<<"sub", CmdAttr("cmdy")>>, <<"foo_bar", CmdAttr("cmdy")>>>>
    /\ result = Return(PyNone)
    /\ DictGet(Commands(DynBaseEnv.classes["cmdz"]), "sub") = "cmdx"
    /\ DictGet(Commands(classes["cmdz"]), "sub") = "cmdy"
    /\ DictGet(Commands(classes["cmdz"]), "foo-bar") = "cmdy"
    /\ ~DictHas(Commands(classes["cmdz"]), "foo_bar")

\* C25: add_to_commandclass raises TypeError when the target is no command
\* class and when a change is neither an Argument nor a command class, and
\* only then; the target's argument map and subcommand map are then what
\* they were before the call.
FailedAddLeavesMaps ==
    Added =>
       LET bad == \/ ~DynBaseEnv.classes[Request.name].iscmd
                  \/ \E i \in 1..Len(Request.changes) :
                        Request.changes[i][2].kind \notin {"arg", "cmd"}
       IN /\ bad <=> result = Raise("TypeError")
          /\ ~bad <=> result = Return(PyNone)
          /\ bad => /\ Arguments(classes[Request.name])
                          = Arguments(DynBaseEnv.classes[Request.name])
                    /\ Commands(classes[Request.name])
                          = Commands(DynBaseEnv.classes[Request.name])

\* a valid change came before the invalid one: its attribute was set on the
\* target, the maps were not
ValidChangeThenInvalid ==
    /\ Added
    /\ Request.name = "cmdz"
    /\ Request.changes = <<<<"y", ArgAttr(DynArgument("new", "n"), PyNone)>>,
                           <<"sub", OtherAttr>>>>
    /\ result = Raise("TypeError")
    /\ DictHas(classes["cmdz"].dict, "y")
    /\ ~DictHas(Arguments(classes["cmdz"]), "y")

(***************************************************************************)
(* Properties of repeated use (specification SpecRepeat)                   *)
(***************************************************************************)
\* the root instance, once there is one
Root == stack[1]

\* as_dict(c) for a command class c
AsDictOfClass(c) ==
    [n \in DictKeys(Arguments(classes[c])) |-> ClassAttr(classes, c, n)]

\* the root instance has not been called yet
NotParsedYet == pc = "ready" /\ stack # <<>> /\ Root.hooks = 0 /\ Root.tokens = <<>>

\* C26: as_dict(x) has as keys exactly the names of x's resolved arguments,
\* dryrun included; on a command class and on an instance that has not
\* parsed yet every value is None; after an invocation every key maps to the
\* value parsed for it or its default, and to None when there is neither.
AsDictValues ==
    /\ \A c \in DOMAIN classes :
          /\ DOMAIN AsDictOfClass(c) = DictKeys(Arguments(classes[c]))
          /\ "dryrun" \in DOMAIN AsDictOfClass(c)
          /\ \A n \in DOMAIN AsDictOfClass(c) : AsDictOfClass(c)[n] = PyNone
    /\ NotParsedYet
          => /\ DOMAIN AsDict(Root) = DictKeys(Root.arguments)
             /\ \A n \in DOMAIN AsDict(Root) : AsDict(Root)[n] = PyNone
    /\ (pc = "done" /\ stack # <<>>)
          => /\ DOMAIN AsDict(Root) = DictKeys(Root.arguments)
             /\ \A k \in 1..Len(Root.arguments) :
                   Root.arguments[k][2].type = "str"
                      => AsDict(Root)[Root.arguments[k][1]]
                             = FinalValue(Root, Root.arguments[k][1])

\* no token of the latest command line names argument n
NotSupplied(fr, n) == \A i \in 1..Len(fr.tokens) : fr.tokens[i].name # n

\* C27: the argument values are reset at the start of every parse pass:
\* after any sequence of invocations of one instance, an argument without
\* default that the tokens of the latest invocation did not supply is None
\* on the instance, whatever earlier invocations supplied.
UnsuppliedIsUnset ==
    (pc = "done" /\ stack # <<>>)
       => \A k \in 1..Len(Root.arguments) :
             (Root.arguments[k][2].default = PyNone
                  /\ NotSupplied(Root, Root.arguments[k][1]))
                => Root.attrs[Root.arguments[k][1]] = PyNone

\* C28: instantiating a command type and running invocations through its
\* instances never changes the resolved argument map or subcommand map of
\* any command type, nor its class attributes: the parsed values and the
\* help and completions subcommands are stored on the instance only.
TypeMapsFrozen ==
    [][\A c \in DOMAIN classes :
          /\ c \in DOMAIN classes'
          /\ Arguments(classes'[c]) = Arguments(classes[c])
          /\ Commands(classes'[c]) = Commands(classes[c])
          /\ classes'[c].dict = classes[c].dict]_vars

\* a second invocation of a root instance has dispatched to sub: the
\* instance holds a parsed x and the two injected subcommands, the type holds
\* neither
InstanceHoldsWhatTypeLacks ==
    /\ pc = "done"
    /\ Len(stack) = 2
    /\ CountAtRoot("invoke") = 2
    /\ Root.attrs["x"] = "a"
    /\ DictHas(Root.commands, "help")
    /\ DictHas(Root.commands, "completions")
    /\ ~DictHas(Commands(classes["root"]), "help")
    /\ ~DictHas(Commands(classes["root"]), "completions")
    /\ AsDictOfClass("root")["x"] = PyNone

\* C29: the registry is populated only when command types are declared:
\* instantiating command nodes and dispatching invocations, any number of
\* times, adds no entry to the registry and changes none.
RegistryFrozenAfterDeclaration ==
    [][REGISTRY' = REGISTRY]_vars


====
